---- MODULE Spec2Model ----
(***************************************************************************)
(* WhatsApp assistant: the /webhook handler, its per-conversation tables   *)
(* (pendingFileRetrievals, forwardedMessages, chartStorage) and the media  *)
(* queries of database/db.js.                                              *)
(*                                                                         *)
(* One inbound request is a task that runs from one await to the next; a   *)
(* segment between two awaits is one action.  Strings are sequences of     *)
(* one-character strings, so that trim, the digit pattern, parseInt, the   *)
(* keyword screen and LIKE are computed as the code computes them.         *)
(*                                                                         *)
(* Every await can return or throw.  Spec delivers the webhook requests    *)
(* one after the other (Tasks has one slot); a request's record keeps what *)
(* it has read, decided and handed to the transport until it answers.      *)
(***************************************************************************)
EXTENDS Integers, Sequences, FiniteSets, TLC

(***************************************************************************)
(* Bounds of the model.                                                    *)
(***************************************************************************)
MaxRequests == 2      \* webhook requests received in one behaviour
MaxInitFiles == 13    \* largest media_files table the behaviour starts from

(***************************************************************************)
(* Program constants.                                                      *)
(***************************************************************************)
MenuLimit == 10       \* searchResults.slice(0, 10)
SemanticLimit == 10   \* searchMediaByDescription(userPhone, q, 10)
AllLimit == 20        \* searchMediaFiles(.., 20) / getAllMediaFiles(.., 20)
DayMs == 86400000     \* one local calendar day, in milliseconds
LinkTtl == 600000     \* setTimeout(.., 10 * 60 * 1000)

JsonNull == "<null>"  \* a JSON null / undefined field of the intent

(***************************************************************************)
(* Strings.                                                                *)
(***************************************************************************)
Digits == <<"0", "1", "2", "3", "4", "5", "6", "7", "8", "9">>

IsDigit(c) == \E i \in 1..10 : Digits[i] = c

DigitVal(c) == (CHOOSE i \in 1..10 : Digits[i] = c) - 1

\* String.prototype.trim: the white space of the strings the model uses
IsSpace(c) == c \in {" ", "\n", "\t"}

RECURSIVE TrimLeft(_)
TrimLeft(s) ==
  IF s # <<>> /\ IsSpace(Head(s)) THEN TrimLeft(Tail(s)) ELSE s

RECURSIVE TrimRight(_)
TrimRight(s) ==
  IF s # <<>> /\ IsSpace(s[Len(s)]) THEN TrimRight(SubSeq(s, 1, Len(s) - 1)) ELSE s

Trim(s) == TrimRight(TrimLeft(s))

\* s.match(/^\d+$/)
MatchesDigits(s) == Len(s) > 0 /\ \A i \in 1..Len(s) : IsDigit(s[i])

\* parseInt of a string of decimal digits
RECURSIVE ParseInt(_)
ParseInt(s) ==
  IF s = <<>> THEN 0
  ELSE 10 * ParseInt(SubSeq(s, 1, Len(s) - 1)) + DigitVal(s[Len(s)])

\* the decimal numeral of k, as the user types it
RECURSIVE NumStr(_)
NumStr(k) ==
  IF k < 10 THEN <<Digits[k + 1]>> ELSE NumStr(k \div 10) \o <<Digits[(k % 10) + 1]>>

UpperCase == <<"A", "B", "C", "D", "E", "F", "G", "H", "I", "J", "K", "L", "M",
               "N", "O", "P", "Q", "R", "S", "T", "U", "V", "W", "X", "Y", "Z">>
LowerCase == <<"a", "b", "c", "d", "e", "f", "g", "h", "i", "j", "k", "l", "m",
               "n", "o", "p", "q", "r", "s", "t", "u", "v", "w", "x", "y", "z">>

LowerChar(c) ==
  IF \E i \in 1..26 : UpperCase[i] = c
  THEN LowerCase[CHOOSE i \in 1..26 : UpperCase[i] = c]
  ELSE c

\* String.prototype.toLowerCase / the case folding of ILIKE
ToLower(s) == [i \in 1..Len(s) |-> LowerChar(s[i])]

\* s.startsWith(p)
StartsWith(s, p) == Len(p) <= Len(s) /\ SubSeq(s, 1, Len(p)) = p

\* s.includes(p)
Includes(s, p) ==
  \E i \in 1..(Len(s) - Len(p) + 1) : SubSeq(s, i, i + Len(p) - 1) = p

\* the alternatives of the keyword screen of the file-query block
FileKeywords == {
    <<"f", "i", "l", "e">>,
    <<"a", "r", "c", "h", "i", "v", "o">>,
    <<"i", "m", "a", "g", "e">>,
    <<"i", "m", "a", "g", "e", "n">>,
    <<"p", "h", "o", "t", "o">>,
    <<"f", "o", "t", "o">>,
    <<"a", "u", "d", "i", "o">>,
    <<"v", "i", "d", "e", "o">>,
    <<"d", "o", "c", "u", "m", "e", "n", "t">>,
    <<"d", "o", "c", "u", "m", "e", "n", "t", "o">>,
    <<"p", "d", "f">>,
    <<"p", "i", "c", "t", "u", "r", "e">>,
    <<"s", "e", "n", "t">>,
    <<"e", "n", "v", "i", "é">>,
    <<"g", "u", "a", "r", "d", "a", "d", "o">>,
    <<"s", "a", "v", "e", "d">>,
    <<"n", "a", "m", "e">>,
    <<"n", "o", "m", "b", "r", "e">>,
    <<"ú", "l", "t", "i", "m", "o">>,
    <<"l", "a", "t", "e", "s", "t">>,
    <<"a", "y", "e", "r">>,
    <<"y", "e", "s", "t", "e", "r", "d", "a", "y">>,
    <<"t", "o", "d", "a", "y">>,
    <<"h", "o", "y">>,
    <<"h", "o", "w", " ", "m", "a", "n", "y">>,
    <<"c", "u", "á", "n", "t", "o">>,
    <<"l", "i", "s", "t">>,
    <<"l", "i", "s", "t", "a">> }

\* msg.match(/file|archivo|...|list|lista/i) on msg = incomingMsg.toLowerCase()
isFileQuery(msg) == \E kw \in FileKeywords : Includes(ToLower(msg), kw)

(***************************************************************************)
(* The relational store: media_files joined with messages (db.js).         *)
(* A row carries the columns the queries select: the owner's phone number  *)
(* and message_date come from the joined message.  An empty                *)
(* file_description is SQL NULL (saveMediaFile stores                      *)
(* fileDescription || null).                                               *)
(***************************************************************************)
Users == {"u1", "u2"}

mime_jpeg == <<"i", "m", "a", "g", "e", "/", "j", "p", "e", "g">>
mime_ogg == <<"a", "u", "d", "i", "o", "/", "o", "g", "g">>
mime_pdf == <<"a", "p", "p", "l", "i", "c", "a", "t", "i", "o", "n", "/", "p", "d", "f">>
mime_mp4 == <<"v", "i", "d", "e", "o", "/", "m", "p", "4">>

ft_image == <<"i", "m", "a", "g", "e">>
ft_audio == <<"a", "u", "d", "i", "o">>
ft_video == <<"v", "i", "d", "e", "o">>
ft_document == <<"d", "o", "c", "u", "m", "e", "n", "t">>

mt_image == <<"i", "m", "a", "g", "e", "/">>
mt_audio == <<"a", "u", "d", "i", "o", "/">>
mt_video == <<"v", "i", "d", "e", "o", "/">>

\* lines 674-680: the message type of a MIME type (null gives 'text')
MessageTypeOf(mediaType) ==
  IF mediaType = <<>> THEN "text"
  ELSE IF StartsWith(mediaType, mt_image) THEN "image"
  ELSE IF StartsWith(mediaType, mt_audio) THEN "audio"
  ELSE IF StartsWith(mediaType, mt_video) THEN "video"
  ELSE IF Includes(mediaType, <<"p", "d", "f">>) \/ Includes(mediaType, ft_document)
       THEN "document"
  ELSE "media"

\* mediaTypeFolders[messageType] || 'other'
FolderOf(messageType) ==
  CASE messageType = "image" -> "images"
    [] messageType = "audio" -> "audio"
    [] messageType = "video" -> "videos"
    [] messageType = "document" -> "documents"
    [] OTHER -> "other"

\* the part of s before the first c (all of s when it holds no c)
RECURSIVE UpTo(_, _)
UpTo(s, c) ==
  IF s = <<>> \/ Head(s) = c THEN <<>> ELSE <<Head(s)>> \o UpTo(Tail(s), c)

\* the part of s after the first c (<<>>, for undefined, when it holds no c)
RECURSIVE After(_, _)
After(s, c) ==
  IF s = <<>> THEN <<>> ELSE IF Head(s) = c THEN Tail(s) ELSE After(Tail(s), c)

\* mediaType.split('/')[1]?.split(';')[0] || 'bin'
ExtensionOf(mediaType) ==
  LET e == UpTo(UpTo(After(mediaType, "/"), "/"), ";")
  IN IF e = <<>> THEN <<"b", "i", "n">> ELSE e

\* path.join(__dirname, 'media', userPhone, mediaTypeFolder,
\*           `${descriptiveName}_${dateStr}_${timeStr}.${extension}`):
\* dateStr and timeStr name the second of the clock
FilePath(userPhone, mediaType, descriptiveName, clock) ==
  [ phone |-> userPhone,
    folder |-> FolderOf(MessageTypeOf(mediaType)),
    name |-> descriptiveName,
    second |-> clock \div 1000,
    extension |-> ExtensionOf(mediaType) ]

\* the file names of the rows the store holds when the behaviour starts
InitName(i) ==
  CASE i % 3 = 1 -> <<"f", "o", "t", "o">>
    [] i % 3 = 2 -> <<"i", "d", "-", "x">>
    [] OTHER -> <<"a", "_", "b">>

\* the rows the store holds when the behaviour starts: row i is older than
\* row i + 1, six hours apart, every sixth row belongs to the other user
InitFile(i) ==
  [ id |-> i,
    phone |-> IF i % 6 = 0 THEN "u2" ELSE "u1",
    file_type |-> CASE i % 4 = 1 -> mime_jpeg
                    [] i % 4 = 2 -> mime_ogg
                    [] i % 4 = 3 -> mime_pdf
                    [] OTHER -> mime_mp4,
    file_name |-> InitName(i),
    file_description |-> IF i % 2 = 0 THEN <<"I", "D", " ", "C", "a", "r", "d">> ELSE <<>>,
    storage_url |-> FilePath(IF i % 6 = 0 THEN "u2" ELSE "u1",
                             CASE i % 4 = 1 -> mime_jpeg
                               [] i % 4 = 2 -> mime_ogg
                               [] i % 4 = 3 -> mime_pdf
                               [] OTHER -> mime_mp4,
                             InitName(i), i * (DayMs \div 4)),
    message_date |-> i * (DayMs \div 4) ]

\* the bytes of every fourth stored file are gone from the disk (the media
\* directory is local to the process, the table is not)
InitLost(i) == i % 4 = 3

\* the sizes of the table the behaviour may start from
InitSizes == {0, 3, MaxInitFiles}

\* the clock when the behaviour starts: two milliseconds before the end of
\* the day that follows the newest initial row's, so that the first two
\* uploads are saved within one second and the third on the next day
Now0 == 4 * DayMs - 2

Rows(db) == {db[i] : i \in 1..Len(db)}

\* ORDER BY m.created_at DESC LIMIT n
RECURSIVE OrderByDateDesc(_, _)
OrderByDateDesc(rows, limit) ==
  IF rows = {} \/ limit = 0 THEN <<>>
  ELSE LET top == CHOOSE r \in rows : \A q \in rows : q.message_date <= r.message_date
       IN <<top>> \o OrderByDateDesc(rows \ {top}, limit - 1)

\* x LIKE pattern: % is any run of characters, _ is any one character
RECURSIVE LikeMatch(_, _)
LikeMatch(s, p) ==
  IF p = <<>> THEN s = <<>>
  ELSE IF Head(p) = "%"
       THEN LikeMatch(s, Tail(p)) \/ (s # <<>> /\ LikeMatch(Tail(s), p))
       ELSE s # <<>> /\ (Head(p) = "_" \/ Head(p) = Head(s)) /\ LikeMatch(Tail(s), Tail(p))

\* x ILIKE pattern
ILikeMatch(s, p) == LikeMatch(ToLower(s), ToLower(p))

\* REPLACE(mf.file_name, '-', ' ')
ReplaceHyphens(s) == [i \in 1..Len(s) |-> IF s[i] = "-" THEN " " ELSE s[i]]

\* searchTerm.split(/\s+/).filter(term => term.length > 0)
RECURSIVE SplitWords(_, _)
SplitWords(s, cur) ==
  IF s = <<>> THEN (IF cur = <<>> THEN <<>> ELSE <<cur>>)
  ELSE IF IsSpace(Head(s))
       THEN (IF cur = <<>> THEN <<>> ELSE <<cur>>) \o SplitWords(Tail(s), <<>>)
       ELSE SplitWords(Tail(s), Append(cur, Head(s)))

searchMediaFiles(db, phoneNumber, fileType, limit) ==
  OrderByDateDesc({r \in Rows(db) :
                     /\ r.phone = phoneNumber
                     /\ fileType # <<>> => LikeMatch(r.file_type, fileType \o <<"%">>)},
                  limit)

\* a variant whose window is open at both ends
getMediaBetween(db, phoneNumber, startDate, endDate) ==
  LET rows == {r \in Rows(db) :
                 /\ r.phone = phoneNumber
                 /\ r.message_date > startDate
                 /\ r.message_date < endDate}
  IN OrderByDateDesc(rows, Cardinality(rows))

getMediaByDateRange(db, phoneNumber, startDate, endDate) ==
  LET rows == {r \in Rows(db) :
                 /\ r.phone = phoneNumber
                 /\ r.message_date >= startDate
                 /\ r.message_date <= endDate}
  IN OrderByDateDesc(rows, Cardinality(rows))

\* a variant whose LIMIT is 2
getLatestTwo(db, phoneNumber, fileType) ==
  OrderByDateDesc({r \in Rows(db) :
                     /\ r.phone = phoneNumber
                     /\ LikeMatch(r.file_type, fileType \o <<"%">>)},
                  2)

\* the rows of getLatestMediaFile: <<>> stands for its null
getLatestMediaFile(db, phoneNumber, fileType) ==
  OrderByDateDesc({r \in Rows(db) :
                     /\ r.phone = phoneNumber
                     /\ LikeMatch(r.file_type, fileType \o <<"%">>)},
                  1)

\* a variant without the WHERE m.phone_number = $1 of the query
getAllMediaFilesOfAnyone(db, phoneNumber, limit) ==
  OrderByDateDesc(Rows(db), limit)

getAllMediaFiles(db, phoneNumber, limit) ==
  OrderByDateDesc({r \in Rows(db) : r.phone = phoneNumber}, limit)

searchMediaByDescription(db, phoneNumber, searchTerm, limit) ==
  LET searchTerms == SplitWords(searchTerm, <<>>)
      pat(t) == <<"%">> \o t \o <<"%">>
      hit(r, t) == \/ (r.file_description # <<>> /\ ILikeMatch(r.file_description, pat(t)))
                   \/ ILikeMatch(r.file_name, pat(t))
                   \/ ILikeMatch(ReplaceHyphens(r.file_name), pat(t))
  IN OrderByDateDesc({r \in Rows(db) :
                        /\ r.phone = phoneNumber
                        /\ Len(searchTerms) > 0 =>
                             \E k \in 1..Len(searchTerms) : hit(r, searchTerms[k])},
                     limit)

\* today.setHours(0, 0, 0, 0): local midnight of the day of t
StartOfDay(t) == t - (t % DayMs)

\* the array's filter(f => f.file_type.startsWith(fileType))
FilterByType(rows, fileType) ==
  SelectSeq(rows, LAMBDA f : StartsWith(f.file_type, fileType))

(***************************************************************************)
(* The inbound messages the transport delivers.                            *)
(***************************************************************************)
Bot == "bot"          \* process.env.TWILIO_WHATSAPP_NUMBER

body_empty == <<>>
body_padded == <<" ", "2", "\n">>
body_zero_two == <<"0", "2">>
body_two_a == <<"2", "a">>
body_foto == <<"f", "o", "t", "o">>
body_hi == <<"h", "i">>

\* the numbers a user types as a reply: out of range below, the first
\* entries, the last entry of a full menu, out of range above
SelNumbers == {0, 2, MenuLimit + 1}

Bodies ==
  {NumStr(k) : k \in SelNumbers}
    \cup {body_empty, body_padded, body_zero_two, body_two_a, body_foto, body_hi}

MediaTypes == {mime_jpeg, mime_ogg, mime_pdf}

\* req.body of the webhook: From, Body, NumMedia, MediaContentType0, Forwarded
Inbound ==
  [From : {"u1"}, Body : Bodies, NumMedia : {0}, MediaContentType0 : {<<>>},
   Forwarded : {FALSE}]
    \cup [From : {"u1"}, Body : {body_empty}, NumMedia : {1},
          MediaContentType0 : MediaTypes, Forwarded : {FALSE}]
    \cup [From : {"u1"}, Body : {NumStr(2)}, NumMedia : {1},
          MediaContentType0 : {mime_jpeg}, Forwarded : {FALSE}]
    \cup [From : {"u1"}, Body : {NumStr(2), body_foto}, NumMedia : {0},
          MediaContentType0 : {<<>>}, Forwarded : {TRUE}]
    \cup [From : {"u1"}, Body : {body_empty}, NumMedia : {1},
          MediaContentType0 : {mime_jpeg}, Forwarded : {TRUE}]
    \cup [From : {"u2"}, Body : {NumStr(2), body_foto}, NumMedia : {0},
          MediaContentType0 : {<<>>}, Forwarded : {FALSE}]
    \cup [From : {Bot}, Body : {body_hi}, NumMedia : {0}, MediaContentType0 : {<<>>},
          Forwarded : {FALSE}]

\* what the model answers and what the sender wrote, as far as names go
custom_name == <<"M", "i", " ", " ", "I", "D", "!">>      \* imageOperationIntent.customName
ai_filename == <<"I", "D", " ", "C", "a", "r", "d">>      \* result.filename
ai_description == <<"I", "D", " ", "C", "a", "r", "d">>   \* result.description
ai_raw == <<"n", "o", " ", "j", "s", "o", "n">>           \* an answer without a JSON object
ai_title == <<" ", "a", "_", "b", ".", " ">>              \* the audio naming answer
transcription == <<"h", "o", "l", "a">>                   \* transcribedText

\* the names of a run of the handler
Names0 == [custom |-> custom_name, filename |-> ai_filename, title |-> ai_title]

(***************************************************************************)
(* JavaScript Map.                                                         *)
(***************************************************************************)
EmptyMap == <<>>

MapHas(m, k) == k \in DOMAIN m

MapSet(m, k, v) == [x \in (DOMAIN m) \cup {k} |-> IF x = k THEN v ELSE m[x]]

MapDelete(m, k) == [x \in (DOMAIN m) \ {k} |-> m[x]]

\* a variant that answers with an empty list whatever the map holds
MapGetNothing(m, k) == <<>>

\* Map.prototype.get, for a key the map has
MapGet(m, k) == m[k]

(***************************************************************************)
(* State.                                                                  *)
(***************************************************************************)
Tasks == {1}          \* the requests that can be in flight together
                      \* when the webhooks arrive one after the other

\* the requests that can be in flight together when a second webhook arrives
\* while the first is suspended at an await (SpecRace)
Slots == {1, 2}

VARIABLES
  pendingFileRetrievals,  \* Map: conversation -> the candidate rows of its menu,
                          \* each row object written as its id
  forwardedMessages,      \* Map: conversation -> the forwarded message it waits on
  chartStorage,           \* Map: link token -> the stored file the bytes come from
  seeded,                 \* number of rows media_files held when the process started
  names,                  \* what the models answer with in this run, as far as names
                          \* go: the custom name, the image's filename, the audio's title
  mediaFiles,             \* the rows inserted since, in insertion order
  disk,                   \* the media directory: storage path -> the bytes it holds,
                          \* each upload's bytes written as the time it was saved at
  now,                    \* the clock, in milliseconds
  received,               \* number of webhook requests received so far
  req,                    \* the local state of each request in flight
  timers,                 \* link token -> milliseconds until its setTimeout callback is due
  fetched,                \* the last answer of GET /media/:fileId
  conversationHistory,    \* Map: conversation -> its history array, oldest entry first
  scheduledJobs,          \* Map: jobId -> the cron task or timeout registered for it,
                          \* written as its index in tasks
  tasks                   \* the cron tasks and timeouts the scheduler has created

vars == <<pendingFileRetrievals, forwardedMessages, chartStorage, seeded, names, mediaFiles,
          disk, now, received, req, timers, fetched, conversationHistory, scheduledJobs,
          tasks>>

\* media_files joined with messages, in insertion order.  No statement of
\* the program updates or deletes a row, so a row object a request or a Map
\* holds is written as the row's id and read back with Row.
Table == [i \in 1..seeded |-> InitFile(i)] \o mediaFiles

Row(id) == Table[id]

\* const fileId = `file_${Date.now()}_${Math.random()..}` (uuidv4() for a chart):
\* an id no live link uses
fileId ==
  CHOOSE t \in 1..(Cardinality(DOMAIN chartStorage) + 1) : t \notin DOMAIN chartStorage

NoIntent ==
  [action |-> JsonNull, fileType |-> <<>>, timeframe |-> JsonNull,
   infoType |-> JsonNull, searchQuery |-> <<>>, confidence |-> JsonNull]

\* no GET /media/:fileId answered yet
NoFetch == [fileId |-> 0, status |-> 0, body |-> 0]

\* fs.existsSync(path)
existsSync(path) == path \in DOMAIN disk

\* fs.readFileSync(path)
readFileSync(path) == disk[path]

\* the media directory over the first n initial rows: the bytes of row i are
\* written as its message_date
InitDisk(n) ==
  LET kept == {j \in 1..n : ~InitLost(j)}
  IN [p \in {InitFile(i).storage_url : i \in kept} |->
        (CHOOSE i \in kept : InitFile(i).storage_url = p) * (DayMs \div 4)]

\* lastError = null: no attempt of the conversational call has failed
NoError == 0

\* a request slot nobody uses
IdleReq ==
  [ pc |-> "idle",
    msg |-> [From |-> Bot, Body |-> <<>>, NumMedia |-> 0, MediaContentType0 |-> <<>>,
             Forwarded |-> FALSE],
    user |-> FALSE,            \* getOrCreateUser returned a user
    hadPending |-> FALSE,      \* pendingFileRetrievals.has(from) at the pending check
    selection |-> 0,           \* parseInt(incomingMsg.trim())
    pendingFiles |-> <<>>,     \* pendingFileRetrievals.get(from)
    gate |-> "no",             \* how the file-query block went: no (not entered), error,
                               \* unparsed, none, low, pass
    lowConf |-> FALSE,         \* the classified intent had confidence low
    action |-> JsonNull,       \* intent.action of the classified intent
    matched |-> -1,            \* searchResults.length: 0, 1, 2 for more, -1 when none yet
    found |-> <<>>,            \* searchResults (row ids), inside the file-query block
    threw |-> FALSE,           \* a send of this request threw and was caught
    intent |-> NoIntent,
    mediaBuffer |-> FALSE,     \* the attachment's bytes were downloaded
    mediaType |-> <<>>,        \* MediaContentType0, or null after a failed download
    transcribed |-> FALSE,     \* transcribedText is set
    imageOp |-> JsonNull,      \* imageOperationIntent.intent
    customName |-> FALSE,      \* imageOperationIntent.customName is set
    imageData |-> FALSE,       \* imageData is set: the image as a data URL
    savedAt |-> 0,             \* created_at of the saved incoming message, 0 when none
    savedMessage |-> JsonNull, \* message_type of the row saveMessage returned
    descriptiveName |-> <<>>,  \* descriptiveName, once the naming block has set it
    fileDescription |-> <<>>,  \* fileDescription, <<>> for null
    forwardedMsg |-> FALSE,    \* forwardedMessages.get(from) before the reply
    queries |-> <<>>,          \* the media queries executed for this request
    interps |-> <<>>,          \* the interpretations the message went through
    out |-> <<>>,              \* the messages handed to the transport
    links |-> {},              \* the link tokens published for this request
    retryCount |-> 0,          \* retryCount of the conversational call's retry loop
    lastError |-> NoError,     \* lastError.status, NoError while lastError is null
    delays |-> <<>>,           \* the delays the retry loop has waited, in ms
    history |-> <<>>,          \* the roles this request pushed onto the conversation
                               \* history of its sender
    outgoing |-> 0,            \* the outgoing message rows this request saved
    cleared |-> FALSE,         \* this request deleted a pendingFileRetrievals entry
    stored |-> FALSE,          \* this request set a pendingFileRetrievals entry
    responses |-> 0,           \* the res.status(..).send(..) calls made for this request
    res |-> 0 ]                \* the HTTP status sent, 0 when none yet

\* a message handed to the transport
TextOut(tag) == [tag |-> tag, file |-> 0, n |-> 0, files |-> <<>>]
RangeOut(tag, n) == [tag |-> tag, file |-> 0, n |-> n, files |-> <<>>]
MediaOut(id) == [tag |-> "media", file |-> id, n |-> 0, files |-> <<>>]
MenuOut(files, n) == [tag |-> "menu", file |-> 0, n |-> n, files |-> files]

Ids(rows) == [i \in 1..Len(rows) |-> rows[i].id]

Init ==
  /\ pendingFileRetrievals = EmptyMap
  /\ forwardedMessages = EmptyMap
  /\ chartStorage = EmptyMap
  /\ \E n \in InitSizes :
       /\ seeded = n
       /\ names = Names0
       /\ mediaFiles = <<>>
       /\ disk = InitDisk(n)
  /\ now = Now0
  /\ received = 0
  /\ req = [r \in Slots |-> IdleReq]
  /\ timers = EmptyMap
  /\ fetched = NoFetch
  /\ conversationHistory = EmptyMap
  /\ scheduledJobs = EmptyMap
  /\ tasks = <<>>

\* res.status(code).send(..): the request is over and its locals are gone
Respond(q, code) ==
  [IdleReq EXCEPT !.pc = "done", !.res = code, !.responses = q.responses + 1]

Free(r) == req[r].pc \in {"idle", "done"}

(***************************************************************************)
(* conversationHistory (lines 853-872, 1092, 1199-1205).  The handler gets *)
(* or creates the sender's array on its way to the conversational reply,   *)
(* pushes the user's message, trims the array, and later pushes the        *)
(* assistant's message; an entry is written as its role and the number of  *)
(* the request that pushed it.                                             *)
(***************************************************************************)
HistoryLimit == 20

Entry(role, n) == [role |-> role, n |-> n]

\* history.push(..)
Push(history, e) == Append(history, e)

\* if (history.length > 20) history.splice(0, history.length - 20)
Splice(history) ==
  IF Len(history) > HistoryLimit
  THEN SubSeq(history, Len(history) - HistoryLimit + 1, Len(history))
  ELSE history

\* what the step of request r does to the history of its sender: the step
\* that reaches line 853 pushes the user's message, if it has content, and
\* trims; the step that has the assistant's message pushes it
HistoryStep(r) ==
  LET q == req[r]
      p == req'[r]
      from == q.msg.From
      has(w, seq) == \E i \in DOMAIN seq : seq[i] = w
      reached == has("chat", p.interps) /\ ~has("chat", q.interps)
      pushedUser == reached /\ has("user", p.history)
      pushedAssistant == has("assistant", p.history) /\ ~has("assistant", q.history)
      old == IF MapHas(conversationHistory, from) THEN conversationHistory[from] ELSE <<>>
      h1 == IF reached
            THEN Splice(IF pushedUser THEN Push(old, Entry("user", received)) ELSE old)
            ELSE old
      h2 == IF pushedAssistant THEN Push(h1, Entry("assistant", received)) ELSE h1
  IN conversationHistory' =
       IF reached \/ pushedAssistant
       THEN MapSet(conversationHistory, from, h2)
       ELSE conversationHistory

(***************************************************************************)
(* app.post('/webhook'): the request arrives; the handler runs up to       *)
(* await getOrCreateUser.  The request takes the first free slot, and the  *)
(* slots of the requests that have been answered are released.             *)
(***************************************************************************)
Receive(r, m) ==
  /\ Free(r)
  /\ \A r2 \in Slots : r2 < r => ~Free(r2)
  /\ received < MaxRequests
  /\ received' = received + 1
  /\ LET q == [IdleReq EXCEPT !.msg = m]
     IN req' = [r2 \in Slots |->
                  IF r2 = r
                  THEN (IF m.From = Bot THEN Respond(q, 200)
                        ELSE [q EXCEPT !.pc = "getUser"])
                  ELSE IF Free(r2) THEN IdleReq ELSE req[r2]]
  /\ UNCHANGED <<pendingFileRetrievals, forwardedMessages, chartStorage, timers, seeded, scheduledJobs, tasks, names,
                 mediaFiles, disk, now, fetched>>
  /\ HistoryStep(r)

(***************************************************************************)
(* The handler from line 515 on, when nothing above it answered: media     *)
(* download, ingestion, conversational reply.                              *)
(***************************************************************************)
\* line 853 on: history, forwardedMessages.get(from), then either the save
\* confirmation or the conversational model
\* (mediaBuffer, mediaType, the transcription, the image intent and the saved
\* name are not read again after this point, and user only to decide whether
\* the outgoing message is saved; imageData goes into the messages of the
\* conversational call, line 1134)
ToChat(q) ==
  LET userContent == q.transcribed \/ Trim(q.msg.Body) # <<>>
      q1 == [q EXCEPT !.forwardedMsg = MapHas(forwardedMessages, q.msg.From),
                      !.interps = Append(@, "chat"),
                      !.history = IF userContent THEN Append(@, "user") ELSE @,
                      !.user = FALSE, !.mediaBuffer = FALSE, !.mediaType = <<>>,
                      !.transcribed = FALSE, !.imageOp = JsonNull, !.savedAt = 0,
                      !.descriptiveName = <<>>, !.fileDescription = <<>>]
  IN IF q.imageOp = "save"
     THEN [q1 EXCEPT !.pc = "confirmSend", !.history = Append(@, "assistant"),
                     !.customName = FALSE, !.imageData = FALSE,
                     !.out = Append(@, TextOut("save_confirm"))]
     ELSE [q1 EXCEPT !.pc = "chat"]

\* if (process.env.DATABASE_URL && user) await saveMessage(..)
ToSave(q) == IF q.user THEN [q EXCEPT !.pc = "saveMsg"] ELSE ToChat(q)

\* if (numMedia > 0) await axios.get(mediaUrl, ..)
ContinueNormal(q0) ==
  LET q == [q0 EXCEPT !.intent = NoIntent, !.found = <<>>, !.action = JsonNull,
                      !.matched = -1, !.queries = <<>>]
  IN IF q.msg.NumMedia > 0
     THEN [q EXCEPT !.pc = "download", !.mediaType = q.msg.MediaContentType0,
                    !.interps = Append(@, "ingest")]
     ELSE ToSave(q)

(***************************************************************************)
(* getOrCreateUser has returned (userOk) or thrown (user stays null; the   *)
(* same as a process without DATABASE_URL).  The handler runs the          *)
(* forwarded check, the pending-selection check and the keyword screen of  *)
(* the file-query block, up to the next await.                             *)
(***************************************************************************)
\* a variant whose index is off by one
SelectedFileShifted(pendingFiles, selection) ==
  pendingFiles[IF selection > 1 THEN selection - 1 ELSE Len(pendingFiles)]

\* const selectedFile = pendingFiles[selection - 1] (sequences start at 1)
SelectedFile(pendingFiles, selection) == pendingFiles[selection]

\* the pending-selection block up to its first await
SelectionBlock(r, q) ==
  LET from == q.msg.From
      selection == ParseInt(Trim(q.msg.Body))
      pendingFiles == MapGet(pendingFileRetrievals, from)
      q1 == [q EXCEPT !.selection = selection, !.pendingFiles = pendingFiles,
                      !.interps = Append(@, "selection")]
  IN IF selection >= 1 /\ selection <= Len(pendingFiles)
     THEN LET selectedFile == Row(SelectedFile(pendingFiles, selection))
          IN IF existsSync(selectedFile.storage_url)
             THEN \* chartStorage.set(fileId, fileBuffer); twilioClient.messages.create
                  /\ chartStorage' = MapSet(chartStorage, fileId,
                                            readFileSync(selectedFile.storage_url))
                  /\ timers' = MapSet(timers, fileId, LinkTtl)
                  /\ req' = [req EXCEPT ![r] =
                       [q1 EXCEPT !.pc = "selSendMedia",
                                  !.links = @ \cup {fileId},
                                  !.out = Append(@, MediaOut(selectedFile.id))]]
             ELSE /\ req' = [req EXCEPT ![r] =
                       [q1 EXCEPT !.pc = "selSendMissing",
                                  !.out = Append(@, TextOut("storage_missing"))]]
                  /\ UNCHANGED <<chartStorage, timers>>
     ELSE /\ req' = [req EXCEPT ![r] =
               [q1 EXCEPT !.pc = "selReprompt",
                          !.out = Append(@, RangeOut("invalid_option", Len(pendingFiles)))]]
          /\ UNCHANGED <<chartStorage, timers>>

\* pendingFileRetrievals.has(from) && incomingMsg && incomingMsg.trim().match(/^\d+$/)
PendingCheck(q) ==
  /\ MapHas(pendingFileRetrievals, q.msg.From)
  /\ q.msg.Body # <<>>
  /\ MatchesDigits(Trim(q.msg.Body))

\* !hasMediaAttached && process.env.DATABASE_URL && user && incomingMsg, isFileQuery
FileQueryCheck(q) ==
  /\ ~(q.msg.NumMedia > 0)
  /\ q.user
  /\ q.msg.Body # <<>>
  /\ isFileQuery(q.msg.Body)

\* a variant that runs the pending-selection check before the forwarded check
InterpretationPendingFirst(q) ==
  IF PendingCheck(q) THEN "selection"
  ELSE IF q.msg.Forwarded THEN "forwarded"
  ELSE IF FileQueryCheck(q) THEN "filequery"
  ELSE "normal"

\* the early-return cascade: which block takes the message
Interpretation(q) ==
  IF q.msg.Forwarded THEN "forwarded"
  ELSE IF PendingCheck(q) THEN "selection"
  ELSE IF FileQueryCheck(q) THEN "filequery"
  ELSE "normal"

GetUser(r, userOk) ==
  /\ req[r].pc = "getUser"
  /\ LET q == [req[r] EXCEPT !.user = userOk,
                             !.hadPending = MapHas(pendingFileRetrievals, req[r].msg.From)]
         from == q.msg.From
         takenAs == Interpretation(q)
     IN CASE takenAs = "forwarded" ->
               /\ forwardedMessages' =
                    MapSet(forwardedMessages, from,
                           [content |-> q.msg.Body, numMedia |-> q.msg.NumMedia])
               /\ req' = [req EXCEPT ![r] =
                    [q EXCEPT !.pc = "fwdAck", !.interps = Append(@, "forwarded"),
                              !.out = Append(@, TextOut("fwd_ack"))]]
               /\ UNCHANGED <<chartStorage, timers>>
          [] takenAs = "selection" ->
               /\ MapHas(pendingFileRetrievals, from)
               /\ SelectionBlock(r, q)
               /\ UNCHANGED forwardedMessages
          [] takenAs = "filequery" ->
               /\ req' = [req EXCEPT ![r] =
                    [q EXCEPT !.pc = "classify", !.interps = Append(@, "filequery")]]
               /\ UNCHANGED <<forwardedMessages, chartStorage, timers>>
          [] OTHER ->
               /\ req' = [req EXCEPT ![r] = ContinueNormal(q)]
               /\ UNCHANGED <<forwardedMessages, chartStorage, timers>>
  /\ UNCHANGED <<pendingFileRetrievals, seeded, scheduledJobs, tasks, names, mediaFiles, disk, now, received, fetched>>
  /\ HistoryStep(r)

\* await sendWhatsAppMessage(from, forwarded acknowledgement); res 200
FwdAck(r, sent) ==
  /\ req[r].pc = "fwdAck"
  /\ req' = [req EXCEPT ![r] = Respond(@, IF sent THEN 200 ELSE 500)]
  /\ UNCHANGED <<pendingFileRetrievals, forwardedMessages, chartStorage, timers, seeded, scheduledJobs, tasks, names,
                 mediaFiles, disk, now, received, fetched>>
  /\ HistoryStep(r)

(***************************************************************************)
(* The awaits of the pending-selection block.  A send that throws inside   *)
(* the try is caught and answered with the error text; a send that throws  *)
(* outside it reaches the handler's catch (500) and skips the delete.      *)
(***************************************************************************)
\* pendingFileRetrievals.delete(from); res.status(200).send('OK')
ClearAndRespond(r) ==
  /\ pendingFileRetrievals' = MapDelete(pendingFileRetrievals, req[r].msg.From)
  /\ req' = [req EXCEPT ![r] = [Respond(@, 200) EXCEPT !.cleared = TRUE]]

SendErrorText(r) ==
  /\ req' = [req EXCEPT ![r] = [@ EXCEPT !.pc = "selSendErr", !.threw = TRUE,
                                         !.out = Append(@, TextOut("send_error"))]]
  /\ UNCHANGED pendingFileRetrievals

\* await twilioClient.messages.create({.., mediaUrl: [fileUrl]})
SelSendMedia(r, sent) ==
  /\ req[r].pc = "selSendMedia"
  /\ IF sent
     THEN /\ req' = [req EXCEPT ![r] = [@ EXCEPT !.pc = "selSendOk",
                                                 !.out = Append(@, TextOut("sent_ok"))]]
          /\ UNCHANGED pendingFileRetrievals
     ELSE SendErrorText(r)
  /\ UNCHANGED <<forwardedMessages, chartStorage, timers, seeded, scheduledJobs, tasks, names, mediaFiles, disk, now,
                 received, fetched>>
  /\ HistoryStep(r)

\* await sendWhatsAppMessage(from, 'Enviada!')
SelSendOk(r, sent) ==
  /\ req[r].pc = "selSendOk"
  /\ IF sent THEN ClearAndRespond(r) ELSE SendErrorText(r)
  /\ UNCHANGED <<forwardedMessages, chartStorage, timers, seeded, scheduledJobs, tasks, names, mediaFiles, disk, now,
                 received, fetched>>
  /\ HistoryStep(r)

\* a variant whose failed send is not caught inside the block
SelSendMissingAborting(r, sent) ==
  /\ req[r].pc = "selSendMissing"
  /\ IF sent
     THEN ClearAndRespond(r)
     ELSE /\ req' = [req EXCEPT ![r] = Respond(@, 500)]
          /\ UNCHANGED pendingFileRetrievals
  /\ UNCHANGED <<forwardedMessages, chartStorage, timers, seeded, scheduledJobs, tasks, names, mediaFiles, disk, now,
                 received, fetched>>
  /\ HistoryStep(r)

\* await sendWhatsAppMessage(from, file not in storage)
SelSendMissing(r, sent) ==
  /\ req[r].pc = "selSendMissing"
  /\ IF sent THEN ClearAndRespond(r) ELSE SendErrorText(r)
  /\ UNCHANGED <<forwardedMessages, chartStorage, timers, seeded, scheduledJobs, tasks, names, mediaFiles, disk, now,
                 received, fetched>>
  /\ HistoryStep(r)

\* catch (error): await sendWhatsAppMessage(from, 'Error al enviar el archivo.')
SelSendErr(r, sent) ==
  /\ req[r].pc = "selSendErr"
  /\ IF sent
     THEN ClearAndRespond(r)
     ELSE /\ req' = [req EXCEPT ![r] = Respond(@, 500)]
          /\ UNCHANGED pendingFileRetrievals
  /\ UNCHANGED <<forwardedMessages, chartStorage, timers, seeded, scheduledJobs, tasks, names, mediaFiles, disk, now,
                 received, fetched>>
  /\ HistoryStep(r)

\* a variant in which the delete of line 228 follows the if/else
SelRepromptClearing(r, sent) ==
  /\ req[r].pc = "selReprompt"
  /\ pendingFileRetrievals' = MapDelete(pendingFileRetrievals, req[r].msg.From)
  /\ req' = [req EXCEPT ![r] = Respond(@, IF sent THEN 200 ELSE 500)]
  /\ UNCHANGED <<forwardedMessages, chartStorage, timers, seeded, scheduledJobs, tasks, names, mediaFiles, disk, now,
                 received, fetched>>
  /\ HistoryStep(r)

\* else: await sendWhatsAppMessage(from, invalid option, 1..pendingFiles.length)
SelReprompt(r, sent) ==
  /\ req[r].pc = "selReprompt"
  /\ req' = [req EXCEPT ![r] = Respond(@, IF sent THEN 200 ELSE 500)]
  /\ UNCHANGED <<pendingFileRetrievals, forwardedMessages, chartStorage, timers, seeded, scheduledJobs, tasks, names,
                 mediaFiles, disk, now, received, fetched>>
  /\ HistoryStep(r)

(***************************************************************************)
(* The file-query block: intent classification, the confidence gate, the   *)
(* resolver, and the answers.  Every await of the block is inside its      *)
(* try: whatever throws is caught by catch (queryError) and the handler    *)
(* continues with line 515.                                                *)
(***************************************************************************)
\* two words; the second holds a character that LIKE reads as a wildcard
sq_card_id_x == <<"c", "a", "r", "d", " ", "i", "d", "_", "x">>

\* the intents the classifier can answer with
Actions == {"retrieve", "info", "list", "none", "other"}
FileTypes == {<<>>, ft_image, ft_document}
Timeframes == {"latest", "today", "yesterday", "all", JsonNull}
SearchQueries == {<<>>, sq_card_id_x}
Confidences == {"high", "low"}

\* the query the resolver runs for an intent, "none" when it runs none
QueryOf(intent) ==
  IF intent.searchQuery # <<>> THEN "searchMediaByDescription"
  ELSE CASE intent.timeframe = "latest" ->
              IF intent.fileType # <<>> THEN "getLatestMediaFile" ELSE "getAllMediaFiles"
         [] intent.timeframe = "yesterday" -> "getMediaByDateRange"
         [] intent.timeframe = "today" -> "getMediaByDateRange"
         [] intent.timeframe = "all" ->
              IF intent.fileType # <<>> THEN "searchMediaFiles" ELSE "getAllMediaFiles"
         [] OTHER -> "none"

\* a variant that narrows the semantic search by the requested fileType
ResolveNarrowed(db, clock, userPhone, intent) ==
  LET hits == searchMediaByDescription(db, userPhone, intent.searchQuery, SemanticLimit)
  IN IF intent.searchQuery # <<>> /\ intent.fileType # <<>>
     THEN FilterByType(hits, intent.fileType)
     ELSE IF intent.searchQuery # <<>> THEN hits
     ELSE getAllMediaFiles(db, userPhone, AllLimit)

\* lines 329-372: searchResults for an intent
Resolve(db, clock, userPhone, intent) ==
  LET fileType == intent.fileType
  IN IF intent.searchQuery # <<>>
     THEN searchMediaByDescription(db, userPhone, intent.searchQuery, SemanticLimit)
     ELSE CASE intent.timeframe = "latest" ->
                 IF fileType # <<>>
                 THEN getLatestMediaFile(db, userPhone, fileType)
                 ELSE getAllMediaFiles(db, userPhone, 1)
            [] intent.timeframe = "yesterday" ->
                 LET yesterday == StartOfDay(clock - DayMs)
                     found == getMediaByDateRange(db, userPhone, yesterday,
                                                  yesterday + DayMs - 1)
                 IN IF fileType # <<>> THEN FilterByType(found, fileType) ELSE found
            [] intent.timeframe = "today" ->
                 LET found == getMediaByDateRange(db, userPhone, StartOfDay(clock), clock)
                 IN IF fileType # <<>> THEN FilterByType(found, fileType) ELSE found
            [] intent.timeframe = "all" ->
                 IF fileType # <<>>
                 THEN searchMediaFiles(db, userPhone, fileType, AllLimit)
                 ELSE getAllMediaFiles(db, userPhone, AllLimit)
            [] OTHER -> <<>>

Min(a, b) == IF a < b THEN a ELSE b

\* searchResults.slice(0, 10)
\* a variant that stores every row
SliceAll(rows) == rows

Slice10(rows) == SubSeq(rows, 1, Min(Len(rows), MenuLimit))

\* a variant that sends a single match only while its bytes exist
IsSingleOnDisk(searchResults) ==
  Len(searchResults) = 1 /\ existsSync(searchResults[1].storage_url)

\* if (searchResults.length === 1)
IsSingle(searchResults) == Len(searchResults) = 1

\* lines 374-507: the answer to an intent whose searchResults are known
\* a variant that takes an empty result for several
NoResultsAsMany(searchResults) == FALSE

\* if (searchResults.length === 0)
NoResults(searchResults) == Len(searchResults) = 0

AfterQuery(r, q0, searchResults) ==
  LET q == [q0 EXCEPT !.found = Ids(searchResults),
                      !.matched = Min(Len(searchResults), 2)]
      from == q.msg.From
      reply(t) == [q EXCEPT !.pc = "fqSend", !.out = Append(@, t)]
  IN CASE q0.intent.action = "info" ->
            /\ req' = [req EXCEPT ![r] =
                 IF Len(searchResults) = 0 THEN reply(TextOut("no_files"))
                 ELSE reply(TextOut("info"))]
            /\ UNCHANGED <<pendingFileRetrievals, chartStorage, timers>>
       [] q0.intent.action = "list" ->
            /\ req' = [req EXCEPT ![r] =
                 IF Len(searchResults) = 0 THEN reply(TextOut("no_files"))
                 ELSE reply(TextOut("list"))]
            /\ UNCHANGED <<pendingFileRetrievals, chartStorage, timers>>
       [] q0.intent.action = "retrieve" ->
            IF NoResults(searchResults)
            THEN /\ req' = [req EXCEPT ![r] = reply(TextOut("not_found"))]
                 /\ UNCHANGED <<pendingFileRetrievals, chartStorage, timers>>
            ELSE IF IsSingle(searchResults)
            THEN LET file == searchResults[1]
                 IN IF existsSync(file.storage_url)
                    THEN /\ chartStorage' = MapSet(chartStorage, fileId,
                                                   readFileSync(file.storage_url))
                         /\ timers' = MapSet(timers, fileId, LinkTtl)
                         /\ req' = [req EXCEPT ![r] =
                              [q EXCEPT !.pc = "singleSendMedia",
                                        !.links = @ \cup {fileId},
                                        !.out = Append(@, MediaOut(file.id))]]
                         /\ UNCHANGED pendingFileRetrievals
                    ELSE /\ req' = [req EXCEPT ![r] =
                              [q EXCEPT !.pc = "singleSendMissing",
                                        !.out = Append(@, TextOut("storage_missing"))]]
                         /\ UNCHANGED <<pendingFileRetrievals, chartStorage, timers>>
            ELSE /\ pendingFileRetrievals' =
                      MapSet(pendingFileRetrievals, from, Ids(Slice10(searchResults)))
                 /\ req' = [req EXCEPT ![r] =
                      [q EXCEPT !.pc = "fqSend", !.stored = TRUE,
                                !.out = Append(@, MenuOut(Ids(Slice10(searchResults)),
                                                          Min(Len(searchResults), MenuLimit)))]]
                 /\ UNCHANGED <<chartStorage, timers>>
       [] OTHER ->
            /\ req' = [req EXCEPT ![r] = ContinueNormal(q)]
            /\ UNCHANGED <<pendingFileRetrievals, chartStorage, timers>>

\* await openai.chat.completions.create(intent prompt) threw
ClassifyError(r) ==
  /\ req[r].pc = "classify"
  /\ req' = [req EXCEPT ![r] = ContinueNormal([@ EXCEPT !.gate = "error"])]
  /\ UNCHANGED <<pendingFileRetrievals, forwardedMessages, chartStorage, timers, seeded, scheduledJobs, tasks, names,
                 mediaFiles, disk, now, received, fetched>>
  /\ HistoryStep(r)

\* a variant that tells the sender about the failed parse and returns
ClassifyUnparsedTold(r) ==
  /\ req[r].pc = "classify"
  /\ req' = [req EXCEPT ![r] =
       [@ EXCEPT !.gate = "unparsed", !.pc = "fqSend",
                 !.out = Append(@, TextOut("send_error"))]]
  /\ UNCHANGED <<pendingFileRetrievals, forwardedMessages, chartStorage, timers, seeded, scheduledJobs, tasks, names,
                 mediaFiles, disk, now, received, fetched>>
  /\ HistoryStep(r)

\* the answer holds no parseable JSON object: throw new Error('Intent parsing failed')
ClassifyUnparsed(r) ==
  /\ req[r].pc = "classify"
  /\ req' = [req EXCEPT ![r] = ContinueNormal([@ EXCEPT !.gate = "unparsed"])]
  /\ UNCHANGED <<pendingFileRetrievals, forwardedMessages, chartStorage, timers, seeded, scheduledJobs, tasks, names,
                 mediaFiles, disk, now, received, fetched>>
  /\ HistoryStep(r)

\* The answer parses to intent: the action gate, the confidence gate, then the
\* resolver's query (answered: it returns its rows, otherwise it throws) and
\* the answer chosen from the rows.  Between the classifier's return and the
\* query's the handler touches no shared table, so the two awaits are taken
\* in one step.
\* if (intent.action === 'none') throw new Error('Not a file query')
ActionGate(intent) == intent.action = "none"

\* a variant that asks back for retrievals only
ConfidenceGateRetrieve(intent) ==
  intent.confidence = "low" /\ intent.action = "retrieve"

\* if (intent.confidence === 'low'): ask back and return
ConfidenceGate(intent) == intent.confidence = "low"

ClassifyAs(r, intent, rows, answered) ==
  LET g(k) == [req[r] EXCEPT !.gate = k, !.action = intent.action,
                             !.lowConf = (intent.confidence = "low")]
      asked == [g("pass") EXCEPT !.intent = intent,
                                 !.queries = Append(@, QueryOf(intent))]
  IN IF ActionGate(intent)
     THEN /\ req' = [req EXCEPT ![r] = ContinueNormal(g("none"))]
          /\ UNCHANGED <<pendingFileRetrievals, chartStorage, timers>>
     ELSE IF ConfidenceGate(intent)
     THEN /\ req' = [req EXCEPT ![r] =
               [g("low") EXCEPT !.pc = "fqSend", !.out = Append(@, TextOut("clarify"))]]
          /\ UNCHANGED <<pendingFileRetrievals, chartStorage, timers>>
     ELSE IF QueryOf(intent) = "none"
     THEN AfterQuery(r, [g("pass") EXCEPT !.intent = intent], <<>>)
     ELSE IF answered
     THEN AfterQuery(r, asked, rows)
     ELSE /\ req' = [req EXCEPT ![r] = ContinueNormal(asked)]
          /\ UNCHANGED <<pendingFileRetrievals, chartStorage, timers>>

Classify(r) ==
  /\ req[r].pc = "classify"
  /\ \E fileType \in FileTypes, timeframe \in Timeframes, searchQuery \in SearchQueries :
       LET asks == [action |-> JsonNull, fileType |-> fileType, timeframe |-> timeframe,
                    infoType |-> JsonNull, searchQuery |-> searchQuery,
                    confidence |-> JsonNull]
           rows == Resolve(Table, now, req[r].msg.From, asks)
       IN \E action \in Actions, confidence \in Confidences, answered \in BOOLEAN :
            ClassifyAs(r, [asks EXCEPT !.action = action, !.confidence = confidence],
                       rows, answered)
  /\ UNCHANGED <<forwardedMessages, seeded, scheduledJobs, tasks, names, mediaFiles, disk, now, received, fetched>>
  /\ HistoryStep(r)

\* a variant without the return after the send
FqSendNoReturn(r, sent) ==
  /\ req[r].pc = "fqSend"
  /\ req' = [req EXCEPT ![r] = ContinueNormal([@ EXCEPT !.threw = ~sent])]
  /\ UNCHANGED <<pendingFileRetrievals, forwardedMessages, chartStorage, timers, seeded, scheduledJobs, tasks, names,
                 mediaFiles, disk, now, received, fetched>>
  /\ HistoryStep(r)

\* await sendWhatsAppMessage(from, ..); res.status(200).send('OK'); return
FqSend(r, sent) ==
  /\ req[r].pc = "fqSend"
  /\ req' = [req EXCEPT ![r] =
       IF sent THEN Respond(@, 200) ELSE ContinueNormal([@ EXCEPT !.threw = TRUE])]
  /\ UNCHANGED <<pendingFileRetrievals, forwardedMessages, chartStorage, timers, seeded, scheduledJobs, tasks, names,
                 mediaFiles, disk, now, received, fetched>>
  /\ HistoryStep(r)

\* catch (fileError): await sendWhatsAppMessage(from, 'Error al enviar el archivo.')
FqSendErrorText(q) ==
  [q EXCEPT !.pc = "fqSend", !.threw = TRUE, !.out = Append(@, TextOut("send_error"))]

\* single match: await twilioClient.messages.create({.., mediaUrl: [fileUrl]})
SingleSendMedia(r, sent) ==
  /\ req[r].pc = "singleSendMedia"
  /\ req' = [req EXCEPT ![r] = IF sent THEN Respond(@, 200) ELSE FqSendErrorText(@)]
  /\ UNCHANGED <<pendingFileRetrievals, forwardedMessages, chartStorage, timers, seeded, scheduledJobs, tasks, names,
                 mediaFiles, disk, now, received, fetched>>
  /\ HistoryStep(r)

\* single match, bytes missing: await sendWhatsAppMessage(from, not in storage)
SingleSendMissing(r, sent) ==
  /\ req[r].pc = "singleSendMissing"
  /\ req' = [req EXCEPT ![r] = IF sent THEN Respond(@, 200) ELSE FqSendErrorText(@)]
  /\ UNCHANGED <<pendingFileRetrievals, forwardedMessages, chartStorage, timers, seeded, scheduledJobs, tasks, names,
                 mediaFiles, disk, now, received, fetched>>
  /\ HistoryStep(r)

(***************************************************************************)
(* Media download and ingestion (lines 515-851).                           *)
(***************************************************************************)
\* await axios.get(mediaUrl, ..) returned the bytes
Download(r) ==
  /\ req[r].pc = "download"
  /\ LET q == [req[r] EXCEPT !.mediaBuffer = TRUE,
                             !.imageData = StartsWith(req[r].mediaType, mt_image)]
     IN req' = [req EXCEPT ![r] =
          IF StartsWith(q.mediaType, mt_audio) THEN [q EXCEPT !.pc = "transcribe"]
          ELSE IF StartsWith(q.mediaType, mt_image) /\ Trim(q.msg.Body) # <<>>
               THEN [q EXCEPT !.pc = "imageIntent"]
          ELSE ToSave(q)]
  /\ UNCHANGED <<pendingFileRetrievals, forwardedMessages, chartStorage, timers, seeded, scheduledJobs, tasks, names,
                 mediaFiles, disk, now, received, fetched>>
  /\ HistoryStep(r)

\* a variant that keeps the content type of the attachment it could not fetch
DownloadErrorTyped(r) ==
  /\ req[r].pc = "download"
  /\ req' = [req EXCEPT ![r] = ToSave(@)]
  /\ UNCHANGED <<pendingFileRetrievals, forwardedMessages, chartStorage, timers, seeded, scheduledJobs, tasks, names,
                 mediaFiles, disk, now, received, fetched>>
  /\ HistoryStep(r)

\* the download threw: mediaUrl = null; mediaType = null
DownloadError(r) ==
  /\ req[r].pc = "download"
  /\ req' = [req EXCEPT ![r] = ToSave([@ EXCEPT !.mediaType = <<>>])]
  /\ UNCHANGED <<pendingFileRetrievals, forwardedMessages, chartStorage, timers, seeded, scheduledJobs, tasks, names,
                 mediaFiles, disk, now, received, fetched>>
  /\ HistoryStep(r)

\* await openai.audio.transcriptions.create(..): outside every try but the handler's
Transcribe(r, ok) ==
  /\ req[r].pc = "transcribe"
  /\ req' = [req EXCEPT ![r] =
       IF ok THEN ToSave([@ EXCEPT !.transcribed = TRUE]) ELSE Respond(@, 500)]
  /\ UNCHANGED <<pendingFileRetrievals, forwardedMessages, chartStorage, timers, seeded, scheduledJobs, tasks, names,
                 mediaFiles, disk, now, received, fetched>>
  /\ HistoryStep(r)

\* what the image-intent pass can answer with
ImageIntents ==
  [intent : {"save", "analyze", "unclear"}, customName : BOOLEAN,
   confidence : {"high", "low"}]

\* the image-intent call or its JSON.parse threw: imageOperationIntent stays null
ImageIntentError(r) ==
  /\ req[r].pc = "imageIntent"
  /\ req' = [req EXCEPT ![r] = ToSave(@)]
  /\ UNCHANGED <<pendingFileRetrievals, forwardedMessages, chartStorage, timers, seeded, scheduledJobs, tasks, names,
                 mediaFiles, disk, now, received, fetched>>
  /\ HistoryStep(r)

\* imageOperationIntent = JSON.parse(..); low confidence or unclear asks back
ImageIntent(r, io) ==
  /\ req[r].pc = "imageIntent"
  /\ LET q == [req[r] EXCEPT !.imageOp = io.intent, !.customName = io.customName]
     IN req' = [req EXCEPT ![r] =
          IF io.confidence = "low" \/ io.intent = "unclear"
          THEN [q EXCEPT !.pc = "imageClarify", !.out = Append(@, TextOut("image_clarify"))]
          ELSE ToSave(q)]
  /\ UNCHANGED <<pendingFileRetrievals, forwardedMessages, chartStorage, timers, seeded, scheduledJobs, tasks, names,
                 mediaFiles, disk, now, received, fetched>>
  /\ HistoryStep(r)

\* await sendWhatsAppMessage(from, what to do with the image): inside the try
ImageClarify(r, sent) ==
  /\ req[r].pc = "imageClarify"
  /\ req' = [req EXCEPT ![r] =
       IF sent THEN Respond(@, 200) ELSE ToSave([@ EXCEPT !.threw = TRUE])]
  /\ UNCHANGED <<pendingFileRetrievals, forwardedMessages, chartStorage, timers, seeded, scheduledJobs, tasks, names,
                 mediaFiles, disk, now, received, fetched>>
  /\ HistoryStep(r)

(***************************************************************************)
(* The descriptive name of a stored file (lines 716-826).                  *)
(***************************************************************************)
IsSlugChar(c) == (\E i \in 1..26 : LowerCase[i] = c) \/ IsDigit(c) \/ c = "-"

\* replace(/-+/g, '-')
RECURSIVE CollapseHyphens(_)
CollapseHyphens(s) ==
  IF Len(s) < 2 THEN s
  ELSE IF s[1] = "-" /\ s[2] = "-" THEN CollapseHyphens(Tail(s))
       ELSE <<s[1]>> \o CollapseHyphens(Tail(s))

\* replace(/\s+/g, '-')
RECURSIVE SpacesToHyphen(_)
SpacesToHyphen(s) ==
  IF s = <<>> THEN <<>>
  ELSE IF IsSpace(s[1])
       THEN IF Len(s) >= 2 /\ IsSpace(s[2]) THEN SpacesToHyphen(Tail(s))
            ELSE <<"-">> \o SpacesToHyphen(Tail(s))
       ELSE <<s[1]>> \o SpacesToHyphen(Tail(s))

\* replace(/^-+|-+$/g, '')
RECURSIVE StripHyphens(_)
StripHyphens(s) ==
  IF s # <<>> /\ s[1] = "-" THEN StripHyphens(Tail(s))
  ELSE IF s # <<>> /\ s[Len(s)] = "-" THEN StripHyphens(SubSeq(s, 1, Len(s) - 1))
  ELSE s

\* substring(0, 50)
Substring50(s) == SubSeq(s, 1, Min(Len(s), 50))

\* substring(0, 500)
Substring500(s) == SubSeq(s, 1, Min(Len(s), 500))

\* replace(/[^a-z0-9-]/g, '-')
OthersToHyphen(s) == [i \in 1..Len(s) |-> IF IsSlugChar(s[i]) THEN s[i] ELSE "-"]

\* lines 728-733: the slug of a custom name
SanitizeCustom(s) ==
  Substring50(CollapseHyphens(SpacesToHyphen(
    SelectSeq(ToLower(s), LAMBDA c : IsSlugChar(c) \/ IsSpace(c)))))

\* lines 774-778: the slug of an image's generated filename
SanitizeImage(s) == Substring50(CollapseHyphens(OthersToHyphen(ToLower(s))))

\* lines 808-813: the slug of an audio's generated filename
SanitizeAudio(s) ==
  Substring50(CollapseHyphens(StripHyphens(OthersToHyphen(ToLower(Trim(s))))))

\* messageType || 'file', as the characters of a name
KindName(messageType) ==
  CASE messageType = "image" -> ft_image
    [] messageType = "audio" -> ft_audio
    [] messageType = "video" -> ft_video
    [] messageType = "document" -> ft_document
    [] messageType = "media" -> <<"m", "e", "d", "i", "a">>
    [] OTHER -> <<"f", "i", "l", "e">>

\* let descriptiveName = 'file'; .. else if (messageType === 'document')
DefaultName(messageType) ==
  IF messageType = "document" THEN ft_document ELSE <<"f", "i", "l", "e">>

\* lines 724-822 up to the naming call: a custom name is used as it is, an
\* image and a transcribed audio ask the model, everything else has its name
StartNaming(q) ==
  LET messageType == MessageTypeOf(q.mediaType)
  IN IF q.imageOp # JsonNull /\ q.customName
     THEN [q EXCEPT !.pc = "ingest", !.descriptiveName = SanitizeCustom(names.custom),
                    !.fileDescription = names.custom]
     ELSE IF messageType = "image" \/ (messageType = "audio" /\ q.transcribed)
     THEN [q EXCEPT !.pc = "naming"]
     ELSE [q EXCEPT !.pc = "ingest", !.descriptiveName = DefaultName(messageType)]

\* content: transcribedText || incomingMsg || ''
ContentOf(q) == IF q.transcribed THEN transcription ELSE q.msg.Body

\* await saveMessage(incoming).  The row of a media message takes the clock's
\* time and no two take the same (created_at has microsecond resolution); the
\* time of a text message is read by no query, the clock need not move for it
SaveMsg(r, ok) ==
  /\ req[r].pc = "saveMsg"
  /\ IF ok
     THEN IF req[r].mediaBuffer /\ req[r].mediaType # <<>>
          THEN /\ now' = now + 1
               /\ req' = [req EXCEPT ![r] =
                    StartNaming([@ EXCEPT !.savedAt = now,
                                          !.savedMessage = MessageTypeOf(req[r].mediaType)])]
          ELSE /\ req' = [req EXCEPT ![r] =
                    ToChat([@ EXCEPT !.savedMessage = MessageTypeOf(req[r].mediaType)])]
               /\ UNCHANGED now
     ELSE /\ req' = [req EXCEPT ![r] = ToChat(@)]
          /\ UNCHANGED now
  /\ UNCHANGED <<pendingFileRetrievals, forwardedMessages, chartStorage, timers, seeded, scheduledJobs, tasks, names,
                 mediaFiles, disk, received, fetched>>
  /\ HistoryStep(r)

\* a variant that gives up the file when its naming call fails
NamingAborting(r, answer) ==
  /\ req[r].pc = "naming"
  /\ answer = "error"
  /\ req' = [req EXCEPT ![r] = ToChat(@)]
  /\ UNCHANGED <<pendingFileRetrievals, forwardedMessages, chartStorage, timers, seeded, scheduledJobs, tasks, names,
                 mediaFiles, disk, now, received, fetched>>
  /\ HistoryStep(r)

\* await openai.chat.completions.create(naming prompt) for an image (lines
\* 743-788) or a transcribed audio (789-819).  answer: error, the call threw
\* (catch (namingError)); unparsed, an image's answer holds no JSON object
\* with a filename (catch (parseError)); named, the answer is used.
Naming(r, answer) ==
  /\ req[r].pc = "naming"
  /\ LET q == req[r]
         messageType == MessageTypeOf(q.mediaType)
     IN /\ answer = "unparsed" => messageType = "image"
        /\ req' = [req EXCEPT ![r] =
             CASE answer = "error" ->
                    [q EXCEPT !.pc = "ingest",
                              !.descriptiveName = KindName(messageType)]
               [] answer = "unparsed" ->
                    [q EXCEPT !.pc = "ingest", !.descriptiveName = ft_image,
                              !.fileDescription = ai_raw]
               [] OTHER ->
                    IF messageType = "image"
                    THEN [q EXCEPT !.pc = "ingest",
                                   !.descriptiveName = SanitizeImage(names.filename),
                                   !.fileDescription = ai_description]
                    ELSE [q EXCEPT !.pc = "ingest",
                                   !.descriptiveName = SanitizeAudio(names.title),
                                   !.fileDescription = Substring500(transcription)]]
  /\ UNCHANGED <<pendingFileRetrievals, forwardedMessages, chartStorage, timers, seeded, scheduledJobs, tasks, names,
                 mediaFiles, disk, now, received, fetched>>
  /\ HistoryStep(r)

\* the row saveMediaFile inserts for request q
MediaRow(q) ==
  [ id |-> Len(Table) + 1,
    phone |-> q.msg.From,
    file_type |-> q.mediaType,
    file_name |-> q.descriptiveName,
    file_description |-> q.fileDescription,
    storage_url |-> FilePath(q.msg.From, q.mediaType, q.descriptiveName, q.savedAt),
    message_date |-> q.savedAt ]

\* a variant that inserts the row whether or not the bytes were written
IngestRowFirst(r, written, inserted) ==
  /\ req[r].pc = "ingest"
  /\ LET q == req[r]
         row == MediaRow(q)
     IN /\ disk' = IF written THEN MapSet(disk, row.storage_url, q.savedAt) ELSE disk
        /\ mediaFiles' = IF inserted THEN Append(mediaFiles, row) ELSE mediaFiles
        /\ req' = [req EXCEPT ![r] = ToChat(q)]
  /\ UNCHANGED <<pendingFileRetrievals, forwardedMessages, chartStorage, timers, seeded, scheduledJobs, tasks, names, now,
                 received, fetched>>
  /\ HistoryStep(r)

\* lines 828-845: fs.writeFileSync(filePath, mediaBuffer); await saveMediaFile(..)
\* (written: the write returned, otherwise it threw; inserted: the insert
\* succeeded; either failure is caught by catch (dbError) and handling goes on)
Ingest(r, written, inserted) ==
  /\ req[r].pc = "ingest"
  /\ LET q == req[r]
         row == MediaRow(q)
     IN /\ disk' = IF written THEN MapSet(disk, row.storage_url, q.savedAt) ELSE disk
        /\ mediaFiles' = IF written /\ inserted THEN Append(mediaFiles, row) ELSE mediaFiles
        /\ req' = [req EXCEPT ![r] = ToChat(q)]
  /\ UNCHANGED <<pendingFileRetrievals, forwardedMessages, chartStorage, timers, seeded, scheduledJobs, tasks, names, now,
                 received, fetched>>
  /\ HistoryStep(r)

(***************************************************************************)
(* The conversational reply (lines 1079-1282).                             *)
(***************************************************************************)
\* after the reply went out: if (process.env.DATABASE_URL && user) await
\* saveMessage({.. direction: 'outgoing' ..}) in a try of its own, then res 200;
\* saved: there is a user and the insert returned
Replied(q, saved) == [Respond(q, 200) EXCEPT !.outgoing = IF saved THEN 1 ELSE 0]

\* a variant without the return after the response
ConfirmSendNoReturn(r, sent) ==
  /\ req[r].pc = "confirmSend"
  /\ IF sent
     THEN req' = [req EXCEPT ![r] = [@ EXCEPT !.pc = "chat", !.res = 200,
                                              !.responses = @ + 1]]
     ELSE req' = [req EXCEPT ![r] = Respond(@, 500)]
  /\ UNCHANGED <<pendingFileRetrievals, forwardedMessages, chartStorage, timers, seeded, scheduledJobs, tasks, names,
                 mediaFiles, disk, now, received, fetched>>
  /\ HistoryStep(r)

\* intent save: await sendWhatsAppMessage(from, confirmationMsg); res 200
ConfirmSend(r, sent) ==
  /\ req[r].pc = "confirmSend"
  /\ IF sent
     THEN \E saved \in BOOLEAN : req' = [req EXCEPT ![r] = Replied(@, saved)]
     ELSE req' = [req EXCEPT ![r] = Respond(@, 500)]
  /\ UNCHANGED <<pendingFileRetrievals, forwardedMessages, chartStorage, timers, seeded, scheduledJobs, tasks, names,
                 mediaFiles, disk, now, received, fetched>>
  /\ HistoryStep(r)

\* the HTTP statuses openai.chat.completions.create fails with
Statuses == {429, 500, 503, 502, 400}

maxRetries == 3

\* the delay before the first retry, in ms
BaseDelay == 1000

RECURSIVE Pow2(_)
Pow2(n) == IF n = 0 THEN 1 ELSE 2 * Pow2(n - 1)

\* openaiError.status === 429 || openaiError.status === 500 ||
\* openaiError.status === 503
shouldRetry(status) == status \in {429, 500, 503}

\* a variant that retries while retryCount <= maxRetries
MayRetryOnceMore(q, status) == shouldRetry(status) /\ q.retryCount <= maxRetries

\* shouldRetry && retryCount < maxRetries
MayRetry(q, status) == shouldRetry(status) /\ q.retryCount < maxRetries

\* an attempt failed with a status that is retried: the loop waits
\* 1000 * Math.pow(2, retryCount) ms, counts the retry and calls again
ChatRetry(r, status) ==
  /\ req[r].pc = "chat"
  /\ MayRetry(req[r], status)
  /\ req' = [req EXCEPT ![r] =
       [@ EXCEPT !.lastError = status,
                 !.delays = Append(@, BaseDelay * Pow2(req[r].retryCount)),
                 !.retryCount = @ + 1]]
  /\ UNCHANGED <<pendingFileRetrievals, forwardedMessages, chartStorage, timers, seeded, scheduledJobs, tasks, names,
                 mediaFiles, disk, now, received, fetched>>
  /\ HistoryStep(r)

\* what a request that got no aiResponse leaves behind: its answer, and what
\* the loop and the request had produced up to there
Failed(q, status) ==
  [Respond(q, 500) EXCEPT !.lastError = status, !.retryCount = q.retryCount,
                          !.delays = q.delays, !.out = q.out, !.history = q.history,
                          !.outgoing = q.outgoing]

\* an attempt failed and the loop breaks without aiResponse:
\* res.status(500).send('AI service error')
ChatError(r, status) ==
  /\ req[r].pc = "chat"
  /\ ~MayRetry(req[r], status)
  /\ req' = [req EXCEPT ![r] = Failed(@, status)]
  /\ UNCHANGED <<pendingFileRetrievals, forwardedMessages, chartStorage, timers, seeded, scheduledJobs, tasks, names,
                 mediaFiles, disk, now, received, fetched>>
  /\ HistoryStep(r)

\* aiResponse received; visual: it carries a table or chart, published as a link
Chat(r, visual) ==
  /\ req[r].pc = "chat"
  /\ IF visual
     THEN /\ chartStorage' = MapSet(chartStorage, fileId, 0)
          /\ timers' = MapSet(timers, fileId, LinkTtl)
          /\ req' = [req EXCEPT ![r] =
               [@ EXCEPT !.pc = "replySend", !.links = @ \cup {fileId},
                         !.customName = FALSE, !.imageData = FALSE,
                         !.history = Append(@, "assistant"),
                         !.out = Append(@, TextOut("ai_visual"))]]
     ELSE /\ req' = [req EXCEPT ![r] =
               [@ EXCEPT !.pc = "replySend", !.history = Append(@, "assistant"),
                         !.customName = FALSE, !.imageData = FALSE,
                         !.out = Append(@, TextOut("ai_reply"))]]
          /\ UNCHANGED <<chartStorage, timers>>
  /\ UNCHANGED <<pendingFileRetrievals, forwardedMessages, seeded, scheduledJobs, tasks, names, mediaFiles, disk, now,
                 received, fetched>>
  /\ HistoryStep(r)

\* a variant that leaves the forwarded message in the buffer
ReplySendKeeping(r, sent) ==
  /\ req[r].pc = "replySend"
  /\ IF sent
     THEN \E saved \in BOOLEAN :
            req' = [req EXCEPT ![r] =
              [Replied(@, saved) EXCEPT !.forwardedMsg = req[r].forwardedMsg]]
     ELSE req' = [req EXCEPT ![r] = Respond(@, 500)]
  /\ UNCHANGED <<pendingFileRetrievals, forwardedMessages, chartStorage, timers, seeded, scheduledJobs, tasks, names,
                 mediaFiles, disk, now, received, fetched>>
  /\ HistoryStep(r)

\* the reply is sent; if (forwardedMsg) forwardedMessages.delete(from); res 200
ReplySend(r, sent) ==
  /\ req[r].pc = "replySend"
  /\ IF sent
     THEN /\ forwardedMessages' =
               IF req[r].forwardedMsg
               THEN MapDelete(forwardedMessages, req[r].msg.From)
               ELSE forwardedMessages
          /\ \E saved \in BOOLEAN :
               req' = [req EXCEPT ![r] =
                 [Replied(@, saved) EXCEPT !.forwardedMsg = req[r].forwardedMsg]]
     ELSE /\ req' = [req EXCEPT ![r] = Respond(@, 500)]
          /\ UNCHANGED forwardedMessages
  /\ UNCHANGED <<pendingFileRetrievals, chartStorage, timers, seeded, scheduledJobs, tasks, names, mediaFiles, disk, now,
                 received, fetched>>
  /\ HistoryStep(r)

(***************************************************************************)
(* The link cache: timers and the GET endpoint (lines 199-207, 1304-1331). *)
(* setTimeout counts the process's monotonic time, which the wall clock    *)
(* `now` is not read for; a timer is written as the time left until it is  *)
(* due.  Time passes in steps of TickMs, and not past a timer that is due: *)
(* its callback runs first.                                                *)
(***************************************************************************)
TickMs == LinkTtl \div 2

\* the link tokens a client may ask for
LinkTokens == 1..MaxRequests

\* TickMs milliseconds pass
Tick ==
  /\ timers # EmptyMap
  /\ \A t \in DOMAIN timers : timers[t] >= TickMs
  /\ timers' = [t \in DOMAIN timers |-> timers[t] - TickMs]
  /\ UNCHANGED <<pendingFileRetrievals, forwardedMessages, chartStorage, seeded, conversationHistory, scheduledJobs, tasks, names, mediaFiles,
                 disk, now, received, req, fetched>>

\* setTimeout(() => chartStorage.delete(fileId), 10 * 60 * 1000) fires
Expire(t) ==
  /\ MapHas(timers, t)
  /\ timers[t] = 0
  /\ chartStorage' = MapDelete(chartStorage, t)
  /\ timers' = MapDelete(timers, t)
  /\ UNCHANGED <<pendingFileRetrievals, forwardedMessages, seeded, conversationHistory, scheduledJobs, tasks, names, mediaFiles, disk, now,
                 received, req, fetched>>

\* a variant that renews the link each time it is resolved
GetMediaRenewing(t) ==
  /\ fetched' = IF MapHas(chartStorage, t)
                THEN [fileId |-> t, status |-> 200, body |-> chartStorage[t]]
                ELSE [fileId |-> t, status |-> 404, body |-> 0]
  /\ timers' = IF MapHas(timers, t) THEN MapSet(timers, t, LinkTtl) ELSE timers
  /\ UNCHANGED <<pendingFileRetrievals, forwardedMessages, chartStorage, seeded, conversationHistory, scheduledJobs, tasks, names, mediaFiles,
                 disk, now, received, req>>

\* app.get('/media/:fileId'): chartStorage.get(fileId), 404 when there is none
GetMedia(t) ==
  /\ fetched' = IF MapHas(chartStorage, t)
                THEN [fileId |-> t, status |-> 200, body |-> chartStorage[t]]
                ELSE [fileId |-> t, status |-> 404, body |-> 0]
  /\ UNCHANGED <<pendingFileRetrievals, forwardedMessages, chartStorage, timers, seeded, conversationHistory, scheduledJobs, tasks, names,
                 mediaFiles, disk, now, received, req>>

Next ==
  \/ \E r \in Tasks, m \in Inbound : Receive(r, m)
  \/ \E r \in Tasks, userOk \in BOOLEAN : GetUser(r, userOk)
  \/ \E r \in Tasks, sent \in BOOLEAN : FwdAck(r, sent)
  \/ \E r \in Tasks, sent \in BOOLEAN : SelSendMedia(r, sent)
  \/ \E r \in Tasks, sent \in BOOLEAN : SelSendOk(r, sent)
  \/ \E r \in Tasks, sent \in BOOLEAN : SelSendMissing(r, sent)
  \/ \E r \in Tasks, sent \in BOOLEAN : SelSendErr(r, sent)
  \/ \E r \in Tasks, sent \in BOOLEAN : SelReprompt(r, sent)
  \/ \E r \in Tasks : ClassifyError(r)
  \/ \E r \in Tasks : ClassifyUnparsed(r)
  \/ \E r \in Tasks : Classify(r)
  \/ \E r \in Tasks, sent \in BOOLEAN : FqSend(r, sent)
  \/ \E r \in Tasks, sent \in BOOLEAN : SingleSendMedia(r, sent)
  \/ \E r \in Tasks, sent \in BOOLEAN : SingleSendMissing(r, sent)
  \/ \E r \in Tasks : Download(r)
  \/ \E r \in Tasks : DownloadError(r)
  \/ \E r \in Tasks, ok \in BOOLEAN : Transcribe(r, ok)
  \/ \E r \in Tasks : ImageIntentError(r)
  \/ \E r \in Tasks, io \in ImageIntents : ImageIntent(r, io)
  \/ \E r \in Tasks, sent \in BOOLEAN : ImageClarify(r, sent)
  \/ \E r \in Tasks, ok \in BOOLEAN : SaveMsg(r, ok)
  \/ \E r \in Tasks, answer \in {"error", "unparsed", "named"} : Naming(r, answer)
  \/ \E r \in Tasks, written \in BOOLEAN, inserted \in BOOLEAN : Ingest(r, written, inserted)
  \/ \E r \in Tasks, sent \in BOOLEAN : ConfirmSend(r, sent)
  \/ \E r \in Tasks, status \in Statuses : ChatError(r, status)
  \/ \E r \in Tasks : Chat(r, FALSE)
  \/ \E r \in Tasks, sent \in BOOLEAN : ReplySend(r, sent)

\* The handler writes chartStorage and never reads it, so the expiry of links
\* (Tick, Expire) and the GET endpoint, which change nothing the handler
\* sees, are left to SpecLinks, and the conversational answers that publish
\* a chart to SpecRetry.
Spec == Init /\ [][Next]_vars

(***************************************************************************)
(* The link cache alone: retrievals that publish links, the passing of     *)
(* time, and clients that resolve tokens.                                  *)
(***************************************************************************)
NextLinks ==
  \/ \E r \in Tasks, m \in Inbound : Receive(r, m)
  \/ \E r \in Tasks, userOk \in BOOLEAN : GetUser(r, userOk)
  \/ \E r \in Tasks : Classify(r)
  \/ \E r \in Tasks, sent \in BOOLEAN : FqSend(r, sent)
  \/ \E r \in Tasks, sent \in BOOLEAN : SingleSendMedia(r, sent)
  \/ \E r \in Tasks, sent \in BOOLEAN : SingleSendMissing(r, sent)
  \/ Tick
  \/ \E t \in DOMAIN chartStorage : Expire(t)
  \/ \E t \in LinkTokens : GetMedia(t)

SpecLinks == Init /\ [][NextLinks]_vars

(***************************************************************************)
(* The retry loop of the conversational call unfolded: one request, on the *)
(* way that leads to the conversational model, with every status the call  *)
(* can fail with and both kinds of answer, with and without a chart.  Spec *)
(* takes the statuses that end the loop at the first attempt and the       *)
(* answers without a chart.                                                *)
(***************************************************************************)
InitRetry ==
  /\ pendingFileRetrievals = EmptyMap
  /\ forwardedMessages = EmptyMap
  /\ chartStorage = EmptyMap
  /\ \E n \in InitSizes :
       /\ seeded = n
       /\ names = Names0
       /\ mediaFiles = <<>>
       /\ disk = InitDisk(n)
  /\ now = Now0
  /\ received = MaxRequests - 1
  /\ req = [r \in Slots |-> IdleReq]
  /\ timers = EmptyMap
  /\ fetched = NoFetch
  /\ conversationHistory = EmptyMap
  /\ scheduledJobs = EmptyMap
  /\ tasks = <<>>

NextRetry ==
  \/ \E r \in Tasks, m \in Inbound : Receive(r, m)
  \/ \E r \in Tasks, userOk \in BOOLEAN : GetUser(r, userOk)
  \/ \E r \in Tasks, ok \in BOOLEAN : SaveMsg(r, ok)
  \/ \E r \in Tasks, status \in Statuses : ChatRetry(r, status)
  \/ \E r \in Tasks, status \in Statuses : ChatError(r, status)
  \/ \E r \in Tasks, visual \in BOOLEAN : Chat(r, visual)
  \/ \E r \in Tasks, sent \in BOOLEAN : ReplySend(r, sent)

SpecRetry == InitRetry /\ [][NextRetry]_vars

(***************************************************************************)
(* The naming of stored files over many names: one upload, with the custom *)
(* name, the image's filename and the audio's title drawn from the strings *)
(* of up to MaxNameLen characters and from LongNames.                      *)
(***************************************************************************)
MaxNameLen == 3

\* a lowercase letter, an uppercase letter, a hyphen, white space, punctuation
NameChars == {"a", "B", "-", " ", "!"}

RECURSIVE Repeat(_, _)
Repeat(c, n) == IF n = 0 THEN <<>> ELSE <<c>> \o Repeat(c, n - 1)

\* names longer than the 50 characters a slug keeps
LongNames == {Repeat("a", 49) \o <<" ", "b">>}

Samples == UNION {[1..n -> NameChars] : n \in 1..MaxNameLen} \cup LongNames

InitSlug ==
  /\ pendingFileRetrievals = EmptyMap
  /\ forwardedMessages = EmptyMap
  /\ chartStorage = EmptyMap
  /\ seeded = 0
  /\ \E s \in Samples : names = [custom |-> s, filename |-> s, title |-> s]
  /\ mediaFiles = <<>>
  /\ disk = InitDisk(0)
  /\ now = Now0
  /\ received = MaxRequests - 1
  /\ req = [r \in Slots |-> IdleReq]
  /\ timers = EmptyMap
  /\ fetched = NoFetch
  /\ conversationHistory = EmptyMap
  /\ scheduledJobs = EmptyMap
  /\ tasks = <<>>

NextSlug ==
  \/ \E r \in Tasks, m \in Inbound : Receive(r, m)
  \/ \E r \in Tasks, userOk \in BOOLEAN : GetUser(r, userOk)
  \/ \E r \in Tasks : Download(r)
  \/ \E r \in Tasks, ok \in BOOLEAN : Transcribe(r, ok)
  \/ \E r \in Tasks, io \in ImageIntents : ImageIntent(r, io)
  \/ \E r \in Tasks, ok \in BOOLEAN : SaveMsg(r, ok)
  \/ \E r \in Tasks, answer \in {"error", "unparsed", "named"} : Naming(r, answer)
  \/ \E r \in Tasks, written \in BOOLEAN, inserted \in BOOLEAN :
       Ingest(r, written, inserted)

SpecSlug == InitSlug /\ [][NextSlug]_vars

(***************************************************************************)
(* Two webhooks of one conversation in flight together: a menu has been    *)
(* offered to u1 and is stored, and u1 answers it twice before the first   *)
(* answer has been served.  A handler runs from one await to the next      *)
(* without interruption; the other handler may run in between.             *)
(***************************************************************************)
\* the replies that pass /^\d+$/ after trim()
NumericReplies ==
  {m \in Inbound : m.From = "u1" /\ ~m.Forwarded /\ m.Body # <<>>
                      /\ MatchesDigits(Trim(m.Body))}

\* pendingFileRetrievals.set(from, searchResults.slice(0, 10)) of the request
\* that offered the menu of all the sender's files
OfferedMenu(n) ==
  Ids(Slice10(getAllMediaFiles([i \in 1..n |-> InitFile(i)], "u1", AllLimit)))

InitRace ==
  /\ forwardedMessages = EmptyMap
  /\ chartStorage = EmptyMap
  /\ \E n \in InitSizes \ {0} :
       /\ seeded = n
       /\ names = Names0
       /\ mediaFiles = <<>>
       /\ disk = InitDisk(n)
       /\ pendingFileRetrievals = MapSet(EmptyMap, "u1", OfferedMenu(n))
  /\ now = Now0
  /\ received = MaxRequests - 2
  /\ req = [r \in Slots |-> IdleReq]
  /\ timers = EmptyMap
  /\ fetched = NoFetch
  /\ conversationHistory = EmptyMap
  /\ scheduledJobs = EmptyMap
  /\ tasks = <<>>

NextRace ==
  \/ \E r \in Slots, m \in NumericReplies : Receive(r, m)
  \/ \E r \in Slots, userOk \in BOOLEAN : GetUser(r, userOk)
  \/ \E r \in Slots, sent \in BOOLEAN : SelSendMedia(r, sent)
  \/ \E r \in Slots, sent \in BOOLEAN : SelSendOk(r, sent)
  \/ \E r \in Slots, sent \in BOOLEAN : SelSendMissing(r, sent)
  \/ \E r \in Slots, sent \in BOOLEAN : SelSendErr(r, sent)
  \/ \E r \in Slots, sent \in BOOLEAN : SelReprompt(r, sent)

SpecRace == InitRace /\ [][NextRace]_vars

(***************************************************************************)
(* Two webhooks of one conversation in flight together, file queries       *)
(* included: u1, who has been offered a menu, sends numeric replies and    *)
(* file queries before the earlier message has been served.  The requests  *)
(* that fall through to the conversational reply are followed up to there. *)
(***************************************************************************)
\* the messages that pass the keyword screen of the file-query block
FileQueries ==
  {m \in Inbound : m.From = "u1" /\ ~m.Forwarded /\ m.NumMedia = 0 /\ m.Body # <<>>
                      /\ isFileQuery(m.Body)}

NextMenus ==
  \/ \E r \in Slots, m \in NumericReplies \cup FileQueries : Receive(r, m)
  \/ \E r \in Slots, userOk \in BOOLEAN : GetUser(r, userOk)
  \/ \E r \in Slots, sent \in BOOLEAN : SelSendMedia(r, sent)
  \/ \E r \in Slots, sent \in BOOLEAN : SelSendOk(r, sent)
  \/ \E r \in Slots, sent \in BOOLEAN : SelSendMissing(r, sent)
  \/ \E r \in Slots, sent \in BOOLEAN : SelSendErr(r, sent)
  \/ \E r \in Slots, sent \in BOOLEAN : SelReprompt(r, sent)
  \/ \E r \in Slots : Classify(r)
  \/ \E r \in Slots, sent \in BOOLEAN : FqSend(r, sent)
  \/ \E r \in Slots, sent \in BOOLEAN : SingleSendMedia(r, sent)
  \/ \E r \in Slots, sent \in BOOLEAN : SingleSendMissing(r, sent)

SpecMenus == InitRace /\ [][NextMenus]_vars

(***************************************************************************)
(* Properties of the retrieval flow.  A request is looked at while it is   *)
(* in flight, req[r] holding what it has read, decided and handed to the   *)
(* transport so far, and at the steps it takes.                            *)
(***************************************************************************)
InFlight(q) == q.pc \notin {"idle", "done"}

\* request r takes this step
Steps(r) == req'[r] # req[r]

\* request r answers the webhook in this step
Finishes(r) == InFlight(req[r]) /\ req'[r].pc = "done"

\* the step in which request r runs the early-return cascade
AtCheck(r) == req[r].pc = "getUser" /\ req'[r].pc # "getUser"

\* past the cascade
Routed(q) == InFlight(q) /\ q.pc # "getUser"

\* a non-forwarded message whose trimmed body is a digit string
DigitReply(m) == ~m.Forwarded /\ MatchesDigits(Trim(m.Body))

Tags(out) == {out[i].tag : i \in DOMAIN out}

\* the ids of the files handed to the transport as media
SentFiles(out) == {out[i].file : i \in {j \in DOMAIN out : out[j].tag = "media"}}

Count(out, tag) == Cardinality({i \in DOMAIN out : out[i].tag = tag})

\* request r is inside an in-range selection made by a text message
InRangeSelection(q) ==
  /\ InFlight(q)
  /\ q.interps = <<"selection">>
  /\ q.msg.NumMedia = 0
  /\ q.selection \in 1..Len(q.pendingFiles)

\* C1 as stated: a non-forwarded text that trims to the digits of k, 1 <= k
\* <= N, during AwaitingSelection makes the handler send the k-th candidate,
\* and the conversation has no PendingSelection when the request ends.
C1_AsStated ==
  [][\A r \in Tasks :
       (InRangeSelection(req[r]) /\ Finishes(r)) =>
          /\ req[r].pendingFiles[req[r].selection] \in SentFiles(req[r].out)
          /\ ~MapHas(pendingFileRetrievals', req[r].msg.From)]_vars

\* C1 amended: such a reply resolves to the k-th stored candidate and to no
\* other.  If that candidate's bytes exist, a link to them is published and
\* the file is handed to the transport; if not, a file-unavailable reply is
\* sent and nothing is published.  The PendingSelection stays while the
\* request runs, is deleted when the request ends with 200, and is left as it
\* was when a failed send ends the request with 500.
C1_Selection ==
  [][\A r \in Tasks :
       LET q == req[r]
           m == q.msg
           from == m.From
           k == ParseInt(Trim(m.Body))
       IN /\ ( /\ AtCheck(r)
               /\ DigitReply(m)
               /\ m.NumMedia = 0
               /\ MapHas(pendingFileRetrievals, from)
               /\ k \in 1..Len(pendingFileRetrievals[from]) ) =>
               LET file == Row(pendingFileRetrievals[from][k])
               IN /\ req'[r].interps = <<"selection">>
                  /\ req'[r].selection = k
                  /\ req'[r].pendingFiles = pendingFileRetrievals[from]
                  /\ IF existsSync(file.storage_url)
                     THEN /\ req'[r].out = <<MediaOut(file.id)>>
                          /\ \E t \in DOMAIN chartStorage' \ DOMAIN chartStorage :
                               /\ chartStorage'[t] = readFileSync(file.storage_url)
                               /\ req'[r].links = {t}
                     ELSE /\ req'[r].out = <<TextOut("storage_missing")>>
                          /\ chartStorage' = chartStorage
          /\ InRangeSelection(q) =>
               /\ SentFiles(q.out) \subseteq {q.pendingFiles[q.selection]}
               /\ MapHas(pendingFileRetrievals, from)
               /\ pendingFileRetrievals[from] = q.pendingFiles
          /\ (InRangeSelection(q) /\ Steps(r)) =>
               IF Finishes(r) /\ req'[r].res = 200
               THEN pendingFileRetrievals' = MapDelete(pendingFileRetrievals, from)
               ELSE pendingFileRetrievals' = pendingFileRetrievals]_vars

\* the second candidate of a menu has been sent and confirmed
C1_Witness ==
  \E r \in Tasks :
    /\ InRangeSelection(req[r])
    /\ req[r].pc = "selSendOk"
    /\ req[r].selection = 2
    /\ req[r].out = <<MediaOut(req[r].pendingFiles[2]), TextOut("sent_ok")>>

\* C2: a digit reply of 0 or of more than N during AwaitingSelection is
\* answered with exactly one re-prompt naming the range 1..N; the
\* PendingSelection is left as it is, no file is sent and no link is
\* published, up to the end of the request.
C2_OutOfRange ==
  [][\A r \in Tasks :
       LET q == req[r]
           m == q.msg
           from == m.From
       IN /\ ( /\ AtCheck(r)
               /\ DigitReply(m)
               /\ MapHas(pendingFileRetrievals, from)
               /\ ParseInt(Trim(m.Body)) \notin 1..Len(pendingFileRetrievals[from]) ) =>
               /\ req'[r].pc = "selReprompt"
               /\ req'[r].out =
                    <<RangeOut("invalid_option", Len(pendingFileRetrievals[from]))>>
               /\ req'[r].links = {}
               /\ pendingFileRetrievals' = pendingFileRetrievals
               /\ chartStorage' = chartStorage
          /\ (q.pc = "selReprompt" /\ Steps(r)) =>
               /\ Finishes(r)
               /\ pendingFileRetrievals' = pendingFileRetrievals
               /\ chartStorage' = chartStorage]_vars

\* a reply above the range has been answered with the re-prompt
C2_Witness ==
  \E r \in Tasks :
    /\ req[r].pc = "selReprompt"
    /\ MapHas(pendingFileRetrievals, req[r].msg.From)
    /\ req[r].selection > Len(pendingFileRetrievals[req[r].msg.From])
    /\ req[r].out =
         <<RangeOut("invalid_option", Len(pendingFileRetrievals[req[r].msg.From]))>>

\* the rows of ids are ordered most recent first
MostRecentFirst(ids) ==
  \A i \in 1..(Len(ids) - 1) : Row(ids[i]).message_date >= Row(ids[i + 1]).message_date

\* C3: when a retrieve intent resolves to N > 1 files, the PendingSelection
\* stored holds the first min(N, 10) of them in resolver order, most recent
\* first; the menu sent lists the same files in the same order, and the range
\* it announces is the number of candidates stored.
C3_Menu ==
  [][\A r \in Tasks :
       LET q == req'[r]
           from == q.msg.From
           kept == SubSeq(q.found, 1, Min(Len(q.found), MenuLimit))
       IN ( /\ req[r].pc = "classify"
            /\ q.gate = "pass"
            /\ q.action = "retrieve"
            /\ Len(q.found) > 1 ) =>
            /\ MostRecentFirst(q.found)
            /\ MapHas(pendingFileRetrievals', from)
            /\ pendingFileRetrievals'[from] = kept
            /\ q.stored
            /\ q.pc = "fqSend"
            /\ q.out = <<MenuOut(kept, Len(pendingFileRetrievals'[from]))>>]_vars

\* eleven files matched, ten are stored and listed
C3_Witness ==
  \E r \in Tasks :
    /\ req[r].pc = "fqSend"
    /\ req[r].stored
    /\ Len(req[r].found) = MenuLimit + 1
    /\ MapHas(pendingFileRetrievals, req[r].msg.From)
    /\ Len(pendingFileRetrievals[req[r].msg.From]) = MenuLimit
    /\ req[r].out = <<MenuOut(pendingFileRetrievals[req[r].msg.From], MenuLimit)>>

\* request r is answering a retrieve intent that resolved to one file
SingleMatch(q) ==
  /\ InFlight(q)
  /\ q.gate = "pass"
  /\ q.action = "retrieve"
  /\ q.matched = 1

\* C4 as stated: a retrieve intent that resolves to exactly one file sends
\* that file in the same request and creates no PendingSelection.
C4_AsStated ==
  \A r \in Tasks :
    SingleMatch(req[r]) =>
      /\ req[r].found[1] \in SentFiles(req[r].out)
      /\ ~req[r].stored

\* C4 amended: a retrieve intent that resolves to exactly one file creates
\* no PendingSelection; if the file's bytes exist at its storage locator, a
\* link to them is published and the file is handed to the transport in the
\* same request; if not, a file-unavailable reply is sent, no file and no
\* link.
C4_Single ==
  \A r \in Tasks :
    LET q == req[r]
    IN SingleMatch(q) =>
         /\ ~q.stored
         /\ Len(q.found) = 1
         /\ IF existsSync(Row(q.found[1]).storage_url)
            THEN /\ q.out[1] = MediaOut(q.found[1])
                 /\ q.links # {}
            ELSE /\ q.out[1] = TextOut("storage_missing")
                 /\ SentFiles(q.out) = {}
                 /\ q.links = {}

\* the one file that matched is being sent
C4_Witness ==
  \E r \in Tasks :
    /\ SingleMatch(req[r])
    /\ req[r].pc = "singleSendMedia"
    /\ req[r].out = <<MediaOut(req[r].found[1])>>

\* C5: a request whose classified intent has confidence low has executed no
\* query of the media store, whatever the intent's action, fileType,
\* timeframe or searchQuery.
C5_LowNoQuery ==
  \A r \in Tasks : req[r].lowConf => req[r].queries = <<>>

\* a low-confidence retrieve has been answered with the clarifying prompt
C5_Witness ==
  \E r \in Tasks :
    /\ req[r].lowConf
    /\ req[r].action = "retrieve"
    /\ req[r].pc = "fqSend"
    /\ req[r].out = <<TextOut("clarify")>>

FileReplyTags ==
  {"clarify", "not_found", "no_files", "info", "list", "menu", "media",
   "storage_missing", "sent_ok", "send_error", "invalid_option"}

\* C6: when the classifier's answer holds no parseable JSON object, or its
\* action is none, no query of the store is executed, no error or
\* file-related reply is sent, and the handling goes on to the normal
\* conversational reply.
C6_NotAFileQuery ==
  \A r \in Tasks :
    LET q == req[r]
    IN q.gate \in {"unparsed", "none"} =>
         /\ q.queries = <<>>
         /\ Tags(q.out) \cap FileReplyTags = {}
         /\ q.pc \in {"saveMsg", "chat", "replySend"}
         /\ q.pc \in {"chat", "replySend"} => q.interps = <<"filequery", "chat">>
         /\ q.pc = "replySend" => Tags(q.out) \subseteq {"ai_reply", "ai_visual"}

\* an unparseable answer has been followed by the conversational reply
C6_Witness ==
  \E r \in Tasks :
    /\ req[r].gate = "unparsed"
    /\ req[r].pc = "replySend"
    /\ req[r].out = <<TextOut("ai_reply")>>

\* C7 as stated: for every action, an intent of confidence low is answered
\* with exactly one clarifying prompt and the request stops there.
C7_AsStated ==
  \A r \in Tasks :
    (req[r].lowConf /\ InFlight(req[r])) =>
      /\ req[r].pc = "fqSend"
      /\ req[r].out = <<TextOut("clarify")>>

\* C7 amended: an intent of confidence low whose action is not none is
\* answered with exactly one clarifying prompt, with no query, no file send
\* and no change of a PendingSelection.  When the prompt is sent the request
\* ends there with 200; when sending it throws, the handler goes on to the
\* normal conversational handling.  An intent whose action is none is never
\* asked back, whatever its confidence.
C7_LowConfidence ==
  [][\A r \in Tasks :
       LET q == req[r]
       IN /\ (q.lowConf /\ q.action \notin {"none", JsonNull}) => q.gate = "low"
          /\ q.gate = "none" => Count(q.out, "clarify") = 0
          /\ q.gate = "low" =>
               /\ q.lowConf
               /\ q.out[1] = TextOut("clarify")
               /\ Count(q.out, "clarify") = 1
               /\ q.queries = <<>>
               /\ SentFiles(q.out) = {}
               /\ ~q.stored
               /\ q.pc = "fqSend" \/ q.threw
          /\ (q.gate = "low" /\ Steps(r)) =>
               pendingFileRetrievals' = pendingFileRetrievals
          /\ (req'[r].gate = "low" /\ Steps(r)) =>
               pendingFileRetrievals' = pendingFileRetrievals
          /\ (q.gate = "low" /\ q.pc = "fqSend" /\ Steps(r)) =>
               \/ Finishes(r) /\ req'[r].res = 200
               \/ req'[r].threw /\ req'[r].pc \in {"saveMsg", "chat"}]_vars

\* a low-confidence info request has been asked back
C7_Witness ==
  \E r \in Tasks :
    /\ req[r].gate = "low"
    /\ req[r].action = "info"
    /\ req[r].pc = "fqSend"
    /\ req[r].out = <<TextOut("clarify")>>

\* the place of an interpretation in the order of precedence
Rank(interp) ==
  CASE interp = "forwarded" -> 1
    [] interp = "selection" -> 2
    [] interp = "filequery" -> 3
    [] interp = "ingest" -> 4
    [] interp = "chat" -> 5

\* C8: the interpretations of a message are tried in the order forwarded,
\* pending selection, file query, media ingestion, conversation.  A forwarded
\* message is taken by the forwarded buffer alone: it leaves a
\* PendingSelection untouched, sends no file and publishes no link.  A
\* digit-only reply during AwaitingSelection is taken by the selection alone:
\* it reaches neither the classifier nor the conversational model.
C8_Priority ==
  [][\A r \in Tasks :
       LET q == req'[r]
       IN /\ \A i, j \in DOMAIN q.interps :
               i < j => Rank(q.interps[i]) < Rank(q.interps[j])
          /\ (Routed(q) /\ q.msg.Forwarded) =>
               /\ q.interps = <<"forwarded">>
               /\ q.gate = "no"
               /\ Tags(q.out) = {"fwd_ack"}
          /\ (Routed(q) /\ q.hadPending /\ DigitReply(q.msg)) =>
               /\ q.interps = <<"selection">>
               /\ q.gate = "no"
               /\ q.pc \notin {"classify", "chat", "replySend"}
          /\ (Steps(r) /\ (q.msg.Forwarded \/ req[r].msg.Forwarded)) =>
               /\ pendingFileRetrievals' = pendingFileRetrievals
               /\ chartStorage' = chartStorage]_vars

\* a forwarded "2" has been buffered while its conversation awaits a selection
C8_Witness ==
  \E r \in Tasks :
    /\ req[r].pc = "fwdAck"
    /\ req[r].msg.Forwarded
    /\ req[r].msg.Body = NumStr(2)
    /\ req[r].hadPending
    /\ MapHas(pendingFileRetrievals, req[r].msg.From)
    /\ req[r].interps = <<"forwarded">>

\* C9 as stated: during AwaitingSelection a message that carries a media
\* attachment, or whose text is not a digit string, is not consumed by the
\* selection: no candidate is resolved or sent for it and it goes on to the
\* later interpretations.
C9_AsStated ==
  \A r \in Tasks :
    LET q == req[r]
    IN ( /\ Routed(q)
         /\ q.hadPending
         /\ ~q.msg.Forwarded
         /\ q.msg.NumMedia > 0 \/ ~MatchesDigits(Trim(q.msg.Body)) ) =>
         \A i \in DOMAIN q.interps : q.interps[i] # "selection"

\* C10 as stated: a PendingSelection is removed only by an in-range numeric
\* selection; out-of-range replies, non-digit text, forwarded messages, media
\* messages and other conversations leave it in place.
C10_AsStated ==
  [][\A c \in Users :
       (MapHas(pendingFileRetrievals, c) /\ ~MapHas(pendingFileRetrievals', c)) =>
          \E r \in Tasks :
            /\ req[r].msg.From = c
            /\ InRangeSelection(req[r])
            /\ DigitReply(req[r].msg)
            /\ Finishes(r)]_vars

(***************************************************************************)
(* The resolver alone: one request, over a store that also holds a file    *)
(* saved in the last millisecond of the day before the clock's.            *)
(***************************************************************************)
\* the row Ingest writes for an image that userPhone sent at time t and whose
\* naming call failed
SavedRow(n, userPhone, t) ==
  [ id |-> n + 1, phone |-> userPhone, file_type |-> mime_jpeg,
    file_name |-> KindName(MessageTypeOf(mime_jpeg)), file_description |-> <<>>,
    storage_url |-> FilePath(userPhone, mime_jpeg, KindName(MessageTypeOf(mime_jpeg)), t),
    message_date |-> t ]

InitResolver ==
  /\ pendingFileRetrievals = EmptyMap
  /\ forwardedMessages = EmptyMap
  /\ chartStorage = EmptyMap
  /\ \E n \in InitSizes, late \in BOOLEAN :
       LET t == StartOfDay(Now0) - 1
       IN /\ seeded = n
          /\ names = Names0
          /\ mediaFiles = IF late THEN <<SavedRow(n, "u2", t)>> ELSE <<>>
          /\ disk = IF late THEN MapSet(InitDisk(n), SavedRow(n, "u2", t).storage_url, t)
                     ELSE InitDisk(n)
  /\ now = Now0
  /\ received = MaxRequests - 1
  /\ req = [r \in Slots |-> IdleReq]
  /\ timers = EmptyMap
  /\ fetched = NoFetch
  /\ conversationHistory = EmptyMap
  /\ scheduledJobs = EmptyMap
  /\ tasks = <<>>

NextResolver ==
  \/ \E r \in Tasks, m \in Inbound : Receive(r, m)
  \/ \E r \in Tasks, userOk \in BOOLEAN : GetUser(r, userOk)
  \/ \E r \in Tasks : ClassifyError(r)
  \/ \E r \in Tasks : ClassifyUnparsed(r)
  \/ \E r \in Tasks : Classify(r)
  \/ \E r \in Tasks, sent \in BOOLEAN : FqSend(r, sent)
  \/ \E r \in Tasks, sent \in BOOLEAN : SingleSendMedia(r, sent)
  \/ \E r \in Tasks, sent \in BOOLEAN : SingleSendMissing(r, sent)

SpecResolver == InitResolver /\ [][NextResolver]_vars

(***************************************************************************)
(* The resolver (lines 329-372) and the queries of the media store.        *)
(***************************************************************************)
\* request r is inside the file-query block with the rows of its query
Resolved(q) == InFlight(q) /\ q.gate = "pass" /\ q.intent # NoIntent /\ q.matched >= 0

\* C11: when the intent carries a searchQuery the resolver runs the semantic
\* search and nothing else, and its rows are the same for every fileType and
\* every timeframe the intent could carry.
C11_SemanticOnly ==
  \A r \in Tasks :
    LET q == req[r]
    IN (Resolved(q) /\ q.intent.searchQuery # <<>>) =>
         /\ q.queries = <<"searchMediaByDescription">>
         /\ q.found = Ids(searchMediaByDescription(Table, q.msg.From,
                                                   q.intent.searchQuery, SemanticLimit))
         /\ \A fileType \in FileTypes, timeframe \in Timeframes :
              Ids(Resolve(Table, now, q.msg.From,
                          [q.intent EXCEPT !.fileType = fileType,
                                           !.timeframe = timeframe])) = q.found

\* a semantic search whose intent also names a fileType and a timeframe that
\* would have selected other rows
C11_Witness ==
  \E r \in Tasks :
    LET q == req[r]
    IN /\ Resolved(q)
       /\ q.intent.searchQuery # <<>>
       /\ q.intent.fileType # <<>>
       /\ q.intent.timeframe = "today"
       /\ q.found # <<>>
       /\ q.found # Ids(Resolve(Table, now, q.msg.From,
                                [q.intent EXCEPT !.searchQuery = <<>>]))

\* token is a case-insensitive substring of s
ContainsToken(s, token) == Includes(ToLower(s), ToLower(token))

\* C12 as stated: the semantic search returns a file of the sender if and
\* only if at least one whitespace-separated token of the query is a
\* case-insensitive substring of the file's description, of its filename, or
\* of its filename with hyphens replaced by spaces; most recent first, capped
\* at the limit.
C12_AsStated ==
  \A r \in Tasks :
    LET q == req[r]
        tokens == SplitWords(q.intent.searchQuery, <<>>)
        hit(f) == \E k \in 1..Len(tokens) :
                    \/ (f.file_description # <<>>
                          /\ ContainsToken(f.file_description, tokens[k]))
                    \/ ContainsToken(f.file_name, tokens[k])
                    \/ ContainsToken(ReplaceHyphens(f.file_name), tokens[k])
    IN (Resolved(q) /\ q.intent.searchQuery # <<>>) =>
         q.found = Ids(OrderByDateDesc({f \in Rows(Table) :
                                          f.phone = q.msg.From /\ hit(f)},
                                       SemanticLimit))

\* the files of a sender that pass the fileType filter (every file when the
\* intent names no fileType)
OfType(userPhone, fileType) ==
  {f \in Rows(Table) :
     f.phone = userPhone /\ (fileType # <<>> => StartsWith(f.file_type, fileType))}

\* request r resolved an intent without searchQuery whose timeframe is latest
Latest(q) ==
  Resolved(q) /\ q.intent.searchQuery = <<>> /\ q.intent.timeframe = "latest"

DayOf(t) == t \div DayMs

\* request r resolved an intent without searchQuery for the day `timeframe`
OfDay(q, timeframe) ==
  Resolved(q) /\ q.intent.searchQuery = <<>> /\ q.intent.timeframe = timeframe

\* C14: the date windows take in both ends of the local calendar day.  A
\* today query returns exactly the sender's files (of the fileType) dated
\* today up to now, the one dated 00:00:00.000 today included; a yesterday
\* query returns exactly those dated yesterday, the one dated 23:59:59.999
\* included and the one dated 00:00:00.000 today excluded.
C14_Windows ==
  \A r \in Tasks :
    LET q == req[r]
        files == OfType(q.msg.From, q.intent.fileType)
        got == {q.found[i] : i \in DOMAIN q.found}
    IN /\ OfDay(q, "today") =>
            got = {f.id : f \in {g \in files : /\ DayOf(g.message_date) = DayOf(now)
                                                /\ g.message_date <= now}}
       /\ OfDay(q, "yesterday") =>
            got = {f.id : f \in {g \in files : DayOf(g.message_date) = DayOf(now) - 1}}

\* a yesterday query whose sender has a file dated 23:59:59.999 yesterday,
\* which is returned, and one dated 00:00:00.000 today, which is not
C14_Witness ==
  \E r \in Tasks :
    LET q == req[r]
        mine == OfType(q.msg.From, <<>>)
    IN /\ OfDay(q, "yesterday")
       /\ \E f \in mine : /\ f.message_date = StartOfDay(now) - 1
                          /\ \E i \in DOMAIN q.found : q.found[i] = f.id
       /\ \E f \in mine : /\ f.message_date = StartOfDay(now)
                          /\ \A i \in DOMAIN q.found : q.found[i] # f.id

(***************************************************************************)
(* The retrieve branch with no result (lines 428-437).                     *)
(***************************************************************************)
\* request r resolved a retrieve intent to no file
ZeroResults(q) == Resolved(q) /\ q.intent.action = "retrieve" /\ q.matched = 0

\* C15 as stated: a retrieve intent that resolves to no file produces exactly
\* one nothing-found reply and the request ends there: no file, no link, no
\* PendingSelection, no conversational reply.
C15_AsStated ==
  \A r \in Tasks :
    LET q == req[r]
    IN /\ ZeroResults(q) => q.out = <<TextOut("not_found")>>
       /\ (InFlight(q) /\ "not_found" \in Tags(q.out)) =>
            /\ q.pc = "fqSend"
            /\ q.out = <<TextOut("not_found")>>
            /\ q.links = {}
            /\ ~q.stored

\* C15 amended: a retrieve intent that resolves to no file produces exactly
\* one nothing-found reply, sends no file, publishes no link and stores no
\* PendingSelection.  When the reply is sent the request ends there with
\* 200; when sending it throws, the handler goes on to the normal
\* conversational handling.
C15_ZeroResults ==
  [][\A r \in Tasks :
       LET q == req[r]
       IN /\ ZeroResults(q) =>
               /\ q.pc = "fqSend"
               /\ q.out = <<TextOut("not_found")>>
               /\ q.links = {}
          /\ (InFlight(q) /\ "not_found" \in Tags(q.out)) =>
               /\ q.out[1] = TextOut("not_found")
               /\ Count(q.out, "not_found") = 1
               /\ SentFiles(q.out) = {}
               /\ "menu" \notin Tags(q.out)
               /\ ~q.stored
               /\ q.pc = "fqSend" \/ q.threw
          /\ (ZeroResults(q) /\ Steps(r)) =>
               /\ pendingFileRetrievals' = pendingFileRetrievals
               /\ chartStorage' = chartStorage
               /\ \/ Finishes(r) /\ req'[r].res = 200
                  \/ req'[r].threw /\ req'[r].pc \in {"saveMsg", "chat"}
          /\ (ZeroResults(req'[r]) /\ Steps(r)) =>
               /\ pendingFileRetrievals' = pendingFileRetrievals
               /\ chartStorage' = chartStorage]_vars

\* the nothing-found reply of a retrieve that matched no file is going out
C15_Witness ==
  \E r \in Tasks :
    /\ ZeroResults(req[r])
    /\ req[r].pc = "fqSend"
    /\ req[r].out = <<TextOut("not_found")>>

(***************************************************************************)
(* The ephemeral link cache (lines 199-207, 1304-1331).                    *)
(***************************************************************************)
\* C16: a published token resolves to the published bytes at every time
\* before its 10 minutes have elapsed and to 404 at every time after, however
\* often it is resolved; resolving never extends its lifetime.  A token is
\* published with the full lifetime; while it is live its bytes do not change
\* and its time left never grows; it is removed only when no time is left,
\* and time does not pass while a token with no time left is still there;
\* GET answers 200 with the bytes for a live token and 404 for any other, and
\* changes neither the cache nor a timer.
C16_Lifetime ==
  [][/\ DOMAIN timers = DOMAIN chartStorage
     /\ \A t \in DOMAIN timers : timers[t] >= 0 /\ timers[t] <= LinkTtl
     /\ \A t \in DOMAIN chartStorage' \ DOMAIN chartStorage : timers'[t] = LinkTtl
     /\ \A t \in DOMAIN chartStorage \cap DOMAIN chartStorage' :
          /\ chartStorage'[t] = chartStorage[t]
          /\ timers'[t] <= timers[t]
     /\ \A t \in DOMAIN chartStorage \ DOMAIN chartStorage' : timers[t] = 0
     /\ (\E t \in DOMAIN timers : timers[t] = 0) =>
          \A t \in DOMAIN timers \cap DOMAIN timers' : timers'[t] = timers[t]
     /\ fetched' # fetched =>
          /\ chartStorage' = chartStorage
          /\ timers' = timers
          /\ IF MapHas(chartStorage, fetched'.fileId)
             THEN /\ fetched'.status = 200
                  /\ fetched'.body = chartStorage[fetched'.fileId]
             ELSE fetched'.status = 404]_vars

\* a token that was resolved while it was live has expired since: the last
\* answer for it was 200 and it is no longer in the cache
C16_Witness ==
  /\ fetched.status = 200
  /\ ~MapHas(chartStorage, fetched.fileId)
  /\ ~MapHas(timers, fetched.fileId)

(***************************************************************************)
(* Ingestion (lines 515-851).                                              *)
(***************************************************************************)
\* request r holds the downloaded bytes of a non-forwarded message, with a
\* user row from the store, and has not reached the end of ingestion
Holding(q) == InFlight(q) /\ q.mediaBuffer /\ q.user /\ ~q.msg.Forwarded

\* C17 as stated: a non-forwarded message whose attachment was downloaded,
\* received while the store is available, ends with the bytes persisted and
\* exactly one MediaFile recorded, whatever transcription, caption intent
\* detection and naming do.  The request stops holding the bytes only in
\* the save of its message or in the write of its file, and that write puts
\* the bytes on disk and, unless the store fails, one row in media_files.
C17_AsStated ==
  [][\A r \in Tasks :
       LET q == req[r]
       IN (Holding(q) /\ Steps(r) /\ ~req'[r].mediaBuffer) =>
            \/ q.pc = "saveMsg" /\ mediaFiles' = mediaFiles
            \/ /\ q.pc = "ingest"
               /\ \/ mediaFiles' = mediaFiles
                  \/ /\ mediaFiles' = Append(mediaFiles, MediaRow(q))
                     /\ MediaRow(q).storage_url \in DOMAIN disk']_vars

\* C18: a naming call that fails (the call throws, or an image's answer
\* cannot be parsed) does not stop the ingestion: the request goes on to the
\* write with descriptiveName equal to its media kind, and the write records
\* the row under that name unless the disk or the store fails.
C18_NamingFailure ==
  [][\A r \in Tasks :
       LET q == req[r]
           p == req'[r]
           kind == KindName(MessageTypeOf(q.mediaType))
       IN /\ (q.pc = "naming" /\ Steps(r)) =>
               /\ p.pc = "ingest"
               /\ p.mediaBuffer /\ p.mediaType = q.mediaType /\ p.savedAt = q.savedAt
               /\ \/ /\ p.descriptiveName = kind
                     /\ kind \in {ft_image, ft_audio}
                     /\ p.fileDescription \in {<<>>, ai_raw}
                  \/ /\ p.descriptiveName \in {SanitizeImage(ai_filename),
                                                SanitizeAudio(ai_title)}
                     /\ p.fileDescription \in {ai_description, transcription}
          /\ (q.pc = "ingest" /\ Steps(r)) =>
               /\ q.descriptiveName # <<>>
               /\ \/ mediaFiles' = mediaFiles
                  \/ /\ mediaFiles' = Append(mediaFiles, MediaRow(q))
                     /\ MediaRow(q).file_name = q.descriptiveName
                     /\ MediaRow(q).storage_url \in DOMAIN disk']_vars

\* the file of an audio whose naming call threw is stored under the name
\* audio, with no description, and its bytes are on disk
C18_Witness ==
  \E i \in DOMAIN mediaFiles :
    /\ mediaFiles[i].file_name = ft_audio
    /\ mediaFiles[i].file_description = <<>>
    /\ existsSync(mediaFiles[i].storage_url)

\* the download of request r's attachment failed and its message is about to
\* be saved
DownloadFailed(q) == q.pc = "saveMsg" /\ q.msg.NumMedia > 0 /\ ~q.mediaBuffer

\* C19: when the download of the attachment fails the ingestion is given up:
\* nothing is written to disk, no MediaFile is recorded, the message is
\* recorded with type text, and the handling goes on as for a text message
\* (no transcription, no caption intent, no naming: straight to the
\* conversational reply).
C19_DownloadFailure ==
  [][\A r \in Tasks :
       LET q == req[r]
           p == req'[r]
       IN /\ (q.pc = "download" /\ q.user /\ Steps(r) /\ ~p.mediaBuffer) =>
               /\ DownloadFailed(p)
               /\ p.mediaType = <<>>
               /\ disk' = disk /\ mediaFiles' = mediaFiles
          /\ (DownloadFailed(q) /\ Steps(r)) =>
               /\ p.pc = "chat"
               /\ p.savedMessage \in {"text", JsonNull}
               /\ p.out = q.out
               /\ disk' = disk /\ mediaFiles' = mediaFiles
          /\ (q.pc \in {"transcribe", "imageIntent", "imageClarify", "naming", "ingest"}) =>
               q.mediaBuffer /\ q.mediaType # <<>>
          /\ (Steps(r) /\ q.pc \notin {"ingest"}) =>
               disk' = disk /\ mediaFiles' = mediaFiles]_vars

\* a message that carried an attachment has been recorded with type text and
\* is in the conversational stage
C19_Witness ==
  \E r \in Tasks :
    /\ req[r].pc = "chat"
    /\ req[r].msg.NumMedia > 0
    /\ req[r].savedMessage = "text"

\* C20: every MediaFile record inserted by the pipeline refers to a storage
\* path whose bytes are on disk, written before the insert; an ingestion
\* whose write or insert fails leaves no record.  Rows are inserted by the
\* write step only, one at a time, after the bytes of the same step.
C20_BytesBeforeRecord ==
  [][/\ \A i \in DOMAIN mediaFiles : existsSync(mediaFiles[i].storage_url)
     /\ mediaFiles' # mediaFiles =>
          \E r \in Tasks :
            /\ req[r].pc = "ingest" /\ Steps(r)
            /\ mediaFiles' = Append(mediaFiles, MediaRow(req[r]))
            /\ MediaRow(req[r]).storage_url \in DOMAIN disk'
            /\ disk'[MediaRow(req[r]).storage_url] = req[r].savedAt
     /\ DOMAIN disk \subseteq DOMAIN disk']_vars

\* one ingestion has failed between its write and its insert (its bytes are
\* on disk and no record refers to them) and another has recorded its file
C20_Witness ==
  /\ mediaFiles # <<>>
  /\ \E path \in DOMAIN disk : \A i \in DOMAIN Table : Table[i].storage_url # path

\* C21 as stated: media writes are append-only: a write never replaces the
\* bytes an earlier ingestion stored, also when two uploads of one user are
\* saved within the same second under the same slug and extension, and no
\* two MediaFile records share a storage path.
C21_AsStated ==
  [][/\ disk' # disk =>
          \A p \in DOMAIN disk : p \in DOMAIN disk' /\ disk'[p] = disk[p]
     /\ mediaFiles' # mediaFiles =>
          \A i \in 1..Len(Table) :
            Table[i].storage_url # mediaFiles'[Len(mediaFiles')].storage_url]_vars

(***************************************************************************)
(* The retry loop of the conversational call (lines 1148-1197).            *)
(***************************************************************************)
\* a rate limit or a server-side error
RetriableClass(status) == status = 429 \/ (status >= 500 /\ status < 600)

\* the step in which an attempt of request r's conversational call fails
AttemptFails(r) ==
  /\ req[r].pc = "chat"
  /\ \/ req'[r].pc = "chat" /\ req'[r].retryCount = req[r].retryCount + 1
     \/ req'[r].pc = "done"

\* C22 as stated: a failed external AI call is retried, with a delay that
\* doubles on each retry and a capped attempt count, if and only if the
\* failure is a rate limit (429) or a server-side 5xx error; every other
\* failure ends the call after a single attempt.
C22_AsStated ==
  [][\A r \in Tasks :
       LET q == req[r]
           p == req'[r]
       IN AttemptFails(r) =>
            /\ p.pc = "chat" <=>
                 (RetriableClass(p.lastError) /\ q.retryCount < maxRetries)
            /\ p.pc = "chat" =>
                 p.delays = Append(q.delays, BaseDelay * Pow2(q.retryCount))
            /\ ~RetriableClass(p.lastError) => (p.pc = "done" /\ p.retryCount = 0)]_vars

\* C23: the retry loop of the conversational reply makes at most 4 attempts,
\* with delays of 1 s, 2 s and 4 s between them, and a failure of the fourth
\* attempt ends it.  A request that got no AI response ends with the one
\* response 500, and its last step hands no message to the transport, adds
\* no assistant entry to the history, saves no outgoing message row,
\* publishes no link and leaves the forwarded buffer alone.
C23_RetryLoop ==
  [][\A r \in Tasks :
       LET q == req[r]
           p == req'[r]
       IN /\ p.retryCount <= maxRetries
          /\ p.delays = SubSeq(<<1000, 2000, 4000>>, 1, p.retryCount)
          /\ (AttemptFails(r) /\ q.retryCount = maxRetries) => p.pc = "done"
          /\ (AttemptFails(r) /\ p.pc = "done") =>
               /\ p.res = 500
               /\ p.out = q.out
               /\ Tags(p.out) \cap {"ai_reply", "ai_visual", "save_confirm"} = {}
               /\ p.history = q.history
               /\ \A i \in DOMAIN p.history : p.history[i] # "assistant"
               /\ p.outgoing = 0
               /\ chartStorage' = chartStorage
               /\ forwardedMessages' = forwardedMessages]_vars

\* a request whose conversational call failed four times has been answered 500
C23_Witness ==
  \E r \in Tasks :
    /\ req[r].pc = "done"
    /\ req[r].res = 500
    /\ req[r].retryCount = maxRetries
    /\ req[r].delays = <<1000, 2000, 4000>>
    /\ req[r].lastError = 503
    /\ req[r].history = <<"user">>

(***************************************************************************)
(* Custom names (lines 724-741, 1079-1146).                                *)
(***************************************************************************)
\* the conversational call of request q carries the image: imageData is set
\* and the messages hold an entry besides the system prompt (this request's
\* own; the entries of earlier requests are not kept here)
ImageAttached(q) == q.pc = "chat" /\ q.imageData /\ q.history # <<>>

\* C24 as stated: when the caption of an inbound image yields a custom name,
\* the stored slug and the stored description both come from that name, no
\* vision call names the image, and the image is not sent to the
\* conversational model.
C24_AsStated ==
  \A r \in Tasks :
    LET q == req[r]
    IN (InFlight(q) /\ q.customName) =>
         /\ q.pc # "naming"
         /\ q.pc = "ingest" =>
              /\ q.descriptiveName = SanitizeCustom(names.custom)
              /\ q.fileDescription = names.custom
         /\ ~ImageAttached(q)

(***************************************************************************)
(* Stored audio (lines 682-690, 787-826).                                  *)
(***************************************************************************)
\* C25 as stated: every transcribed audio that is stored gets the first 500
\* characters of its transcription as the description of its MediaFile, and
\* the transcription as the content of its recorded message.
C25_AsStated ==
  [][\A r \in Tasks :
       LET q == req[r]
       IN ( /\ q.pc = "ingest"
            /\ MessageTypeOf(q.mediaType) = "audio"
            /\ q.transcribed
            /\ Len(mediaFiles') = Len(mediaFiles) + 1 ) =>
            /\ mediaFiles'[Len(mediaFiles')].file_description =
                 Substring500(transcription)
            /\ ContentOf(q) = transcription]_vars

(***************************************************************************)
(* Slugs (lines 728-733, 774-778, 809-814).                                *)
(***************************************************************************)
\* the sanitizer that made the descriptiveName request q is about to store
Sanitizer(q, s) ==
  CASE q.imageOp # JsonNull /\ q.customName -> SanitizeCustom(s)
    [] MessageTypeOf(q.mediaType) = "image" -> SanitizeImage(s)
    [] MessageTypeOf(q.mediaType) = "audio" /\ q.transcribed -> SanitizeAudio(s)
    [] OTHER -> s

\* C26 as stated: on every naming path (custom name, image, audio) the
\* sanitization is idempotent: sanitizing a stored slug again gives the same
\* slug.
C26_AsStated ==
  \A r \in Tasks :
    LET q == req[r]
    IN q.pc = "ingest" => Sanitizer(q, q.descriptiveName) = q.descriptiveName

\* C27 as stated: on every naming path the stored slug has at most 50
\* characters, only lowercase letters, digits and hyphens, no hyphen at
\* either end and no two hyphens in a row.
C27_AsStated ==
  \A r \in Tasks :
    LET q == req[r]
        slug == q.descriptiveName
    IN q.pc = "ingest" =>
         /\ Len(slug) <= 50
         /\ \A i \in DOMAIN slug : IsSlugChar(slug[i])
         /\ slug # <<>> => (slug[1] # "-" /\ slug[Len(slug)] # "-")
         /\ \A i \in 1..(Len(slug) - 1) : ~(slug[i] = "-" /\ slug[i + 1] = "-")

(***************************************************************************)
(* Storage misses (lines 198-234, 448-477).                                *)
(***************************************************************************)
\* request q resolved a file whose bytes are not at its storage locator and
\* is telling so
AtMiss(q) == q.pc \in {"selSendMissing", "singleSendMissing"}

\* C28 as stated: when a resolved file's bytes are missing, the sender gets
\* the file-unavailable reply, no link is published, no media message is
\* sent, and the request completes with HTTP 200, on the single-match path
\* and on the numeric-selection path.
C28_AsStated ==
  [][\A r \in Tasks :
       LET q == req[r]
           p == req'[r]
       IN /\ AtMiss(p) =>
               /\ p.out = <<TextOut("storage_missing")>>
               /\ p.links = {}
          /\ (AtMiss(q) /\ Steps(r)) => (Finishes(r) /\ p.res = 200)]_vars

\* C28 amended: when a resolved file's bytes are missing, the
\* file-unavailable reply is handed to the transport as the request's first
\* message, no link is published and no media message is sent, on both
\* paths.  When the transport takes the reply the request completes with
\* 200.  When it throws, the error reply is sent instead: if that one goes
\* out the request completes with 200; if it throws too, the selection path
\* ends with 500 and keeps the PendingSelection, and the single-match path
\* goes on to the normal conversational handling.
C28_StorageMiss ==
  [][\A r \in Tasks :
       LET q == req[r]
           p == req'[r]
           told == <<TextOut("storage_missing"), TextOut("send_error")>>
       IN /\ AtMiss(p) =>
               /\ p.out = <<TextOut("storage_missing")>>
               /\ p.links = {}
               /\ Steps(r) => chartStorage' = chartStorage
          /\ (AtMiss(q) /\ Steps(r)) =>
               \/ Finishes(r) /\ p.res = 200
               \/ /\ p.out = told
                  /\ p.threw
                  /\ p.links = {}
                  /\ p.pc = IF q.pc = "selSendMissing" THEN "selSendErr" ELSE "fqSend"
                  /\ chartStorage' = chartStorage
          /\ (q.out = told /\ q.pc \in {"selSendErr", "fqSend"} /\ Steps(r)) =>
               \/ Finishes(r) /\ p.res = 200
               \/ /\ q.pc = "selSendErr"
                  /\ Finishes(r)
                  /\ p.res = 500
                  /\ pendingFileRetrievals' = pendingFileRetrievals
               \/ /\ q.pc = "fqSend"
                  /\ p.pc \in {"saveMsg", "chat"}
                  /\ p.out = told
                  /\ p.links = {}]_vars

\* the file-unavailable reply of a numeric selection could not be sent and
\* the error reply is on its way
C28_Witness ==
  \E r \in Tasks :
    /\ req[r].pc = "selSendErr"
    /\ req[r].hadPending
    /\ req[r].out = <<TextOut("storage_missing"), TextOut("send_error")>>
    /\ req[r].links = {}

(***************************************************************************)
(* The kinds of media at ingestion and at retrieval (lines 674-708,        *)
(* 340-371; db.js 214-274).                                                *)
(***************************************************************************)
\* the retrieve intent for kind and timeframe, with no searchQuery
KindIntent(kind, timeframe) ==
  [NoIntent EXCEPT !.action = "retrieve", !.fileType = kind, !.timeframe = timeframe,
                   !.confidence = "high"]

\* C29 as stated: a file that ingestion classifies as kind K, for K one of
\* image, audio, video and document, is stored under K's folder and is
\* matched by the resolver's filter fileType = K in the strategies latest,
\* today, yesterday and all.
C29_AsStated ==
  [][Len(mediaFiles') = Len(mediaFiles) + 1 =>
       LET f == mediaFiles'[Len(mediaFiles')]
           messageType == MessageTypeOf(f.file_type)
           kind == KindName(messageType)
           found(clock, timeframe) ==
             Rows(Resolve(Append(Table, f), clock, f.phone,
                          KindIntent(kind, timeframe)))
       IN messageType \in {"image", "audio", "video", "document"} =>
            /\ f.storage_url.folder = FolderOf(messageType)
            /\ f \in found(f.message_date, "latest")
            /\ f \in found(f.message_date, "today")
            /\ f \in found(f.message_date + DayMs, "yesterday")
            /\ f \in found(f.message_date, "all")]_vars

\* C30: Under any interleaving of two concurrent inbound messages from the
\* same conversation, one stored candidate set is consumed at most once:
\* two concurrent in-range numeric replies never both have a file sent for
\* the same stored candidate set.
C30_AsStated ==
  \A r1 \in Slots, r2 \in Slots :
    (/\ r1 # r2
     /\ InFlight(req[r1]) /\ InFlight(req[r2])
     /\ req[r1].msg.From = req[r2].msg.From
     /\ req[r1].interps = <<"selection">> /\ req[r2].interps = <<"selection">>
     /\ req[r1].pendingFiles = req[r2].pendingFiles
     /\ SentFiles(req[r1].out) # {})
      => SentFiles(req[r2].out) = {}

\* C31: Under any interleaving, the stored candidate set of a conversation
\* is removed only by a selection made against that same candidate set: the
\* request whose step deletes the entry had read the very list it deletes.
C31_AsStated ==
  [][\A c \in Users :
       (MapHas(pendingFileRetrievals, c) /\ ~MapHas(pendingFileRetrievals', c)) =>
         \E r \in Slots :
           /\ Steps(r)
           /\ req[r].msg.From = c
           /\ req[r].interps = <<"selection">>
           /\ req[r].pendingFiles = pendingFileRetrievals[c]]_vars

\* the menu request r is about to have delivered
MenuOf(q) == q.out[Len(q.out)].files

\* C32: Under any interleaving of two concurrent multi-match queries of one
\* conversation, when a menu has been delivered the candidate set stored for
\* the conversation, if there is one, is the candidate list of that menu,
\* the one sent last.
C32_AsStated ==
  [][\A r \in Slots :
       (/\ req[r].pc = "fqSend" /\ req[r].stored
        /\ req'[r].pc = "done" /\ req'[r].res = 200) =>
         (MapHas(pendingFileRetrievals', req[r].msg.From) =>
            pendingFileRetrievals'[req[r].msg.From] = MenuOf(req[r]))]_vars

\* C33: Under any interleaving of concurrent requests, the selection handler
\* never reads a missing entry: the step that indexes the candidate list
\* finds the entry in the map and holds that very list, the request keeps it
\* whatever the other request does to the map, and a selection fails (500)
\* only after a send of its own threw.
C33_HeldList ==
  [][\A r \in Slots :
       LET q == req[r]
           p == req'[r]
           from == q.msg.From
       IN /\ (q.pc = "getUser" /\ p.interps = <<"selection">>) =>
               /\ MapHas(pendingFileRetrievals, from)
               /\ p.pendingFiles = pendingFileRetrievals[from]
               /\ (p.selection >= 1 /\ p.selection <= Len(p.pendingFiles)) =>
                    p.pc \in {"selSendMedia", "selSendMissing"}
          /\ (q.interps = <<"selection">> /\ InFlight(q) /\ InFlight(p)) =>
               p.pendingFiles = q.pendingFiles
          /\ (q.interps = <<"selection">> /\ InFlight(q) /\ p.pc = "done"
                /\ p.res = 500) =>
               q.pc \in {"selSendErr", "selReprompt"}]_vars

\* a selection is suspended in a send, holding its list, after the other
\* request has cleared the entry
C33_Witness ==
  \E r \in Slots :
    /\ InFlight(req[r])
    /\ req[r].interps = <<"selection">>
    /\ req[r].pc \in {"selSendMedia", "selSendOk"}
    /\ req[r].pendingFiles # <<>>
    /\ ~MapHas(pendingFileRetrievals, req[r].msg.From)

\* C34: Every inbound webhook request receives exactly one HTTP response,
\* 200 or 500, on every control path: a request that has answered has sent
\* one response, a request in flight has sent none and has a next step, and
\* a step of a request never follows its response.
C34_OneResponse ==
  \A r \in Tasks :
    LET q == req[r]
    IN /\ q.pc = "done" => (q.responses = 1 /\ q.res \in {200, 500})
       /\ q.pc = "idle" => (q.responses = 0 /\ q.res = 0)
       /\ InFlight(q) => (q.responses = 0 /\ q.res = 0 /\ ENABLED Next)

\* a request that went through the conversational reply has answered, and
\* one whose send threw has answered 500
C34_Witness ==
  \E r \in Tasks :
    /\ req[r].pc = "done" /\ req[r].responses = 1
    /\ req[r].res = 200 /\ req[r].outgoing = 1
    /\ received = MaxRequests

\* the files of a list of row ids all belong to messages of phone
OwnedBy(ids, phone) == \A i \in DOMAIN ids : Row(ids[i]).phone = phone

\* C35: Resolver results are scoped to the requesting user: for every query
\* strategy every returned file belongs to a message of the requesting phone
\* identifier, so the candidates stored for a conversation, the menus and
\* the files sent to it never include another user's file.
C35_Scoped ==
  /\ \A c \in DOMAIN pendingFileRetrievals : OwnedBy(pendingFileRetrievals[c], c)
  /\ \A r \in Tasks :
       LET q == req[r]
           from == q.msg.From
       IN InFlight(q) =>
            /\ OwnedBy(q.found, from)
            /\ OwnedBy(q.pendingFiles, from)
            /\ \A id \in SentFiles(q.out) : Row(id).phone = from
            /\ \A i \in DOMAIN q.out : OwnedBy(q.out[i].files, from)

\* a sender is offered a menu of all the files while the store holds files
\* of another user, newer than some of the sender's
C35_Witness ==
  \E r \in Tasks :
    LET q == req[r]
    IN /\ q.pc = "fqSend" /\ q.stored
       /\ q.queries = <<"getAllMediaFiles">>
       /\ Len(q.found) >= 2
       /\ \E f \in Rows(Table) :
            /\ f.phone # q.msg.From
            /\ f.message_date > Row(q.found[Len(q.found)]).message_date

JobIds == {"j1", "j2"}

MaxTasks == 3

MaxFires == 2

webhookVars ==
  <<pendingFileRetrievals, forwardedMessages, chartStorage, seeded, names, mediaFiles,
    disk, now, received, req, timers, fetched, conversationHistory>>

Task(kind, jobId) == [kind |-> kind, jobId |-> jobId, state |-> "armed", fired |-> 0]

Armed(h) == tasks[h].state = "armed"

\* task.stop() of a cron task
Stop(ts, h) == [ts EXCEPT ![h].state = "cancelled"]

\* clearTimeout(x): disarms a timeout that has not started; no effect on a
\* timeout that has, nor on an object that is not a timeout
clearTimeout(ts, h) ==
  IF ts[h].kind = "timeout" /\ ts[h].state = "armed"
  THEN [ts EXCEPT ![h].state = "cancelled"]
  ELSE ts

\* scheduleRecurringMessage (lines 15-45): an existing cron task is stopped;
\* an existing Timeout has no stop method, the call throws a TypeError at
\* line 18 and nothing is scheduled
ScheduleRecurring(jobId) ==
  /\ Len(tasks) < MaxTasks
  /\ IF MapHas(scheduledJobs, jobId) /\ tasks[scheduledJobs[jobId]].kind = "timeout"
     THEN UNCHANGED <<scheduledJobs, tasks>>
     ELSE LET stopped == IF MapHas(scheduledJobs, jobId)
                         THEN Stop(tasks, scheduledJobs[jobId])
                         ELSE tasks
          IN /\ tasks' = Append(stopped, Task("cron", jobId))
             /\ scheduledJobs' = MapSet(scheduledJobs, jobId, Len(tasks) + 1)
  /\ UNCHANGED webhookVars

\* scheduleOneTimeMessage (lines 56-90): a delay that is not positive throws;
\* the existing entry is handed to clearTimeout whatever it is
ScheduleOneTime(jobId, delay) ==
  /\ Len(tasks) < MaxTasks
  /\ IF delay <= 0
     THEN UNCHANGED <<scheduledJobs, tasks>>
     ELSE LET cleared == IF MapHas(scheduledJobs, jobId)
                         THEN clearTimeout(tasks, scheduledJobs[jobId])
                         ELSE tasks
          IN /\ tasks' = Append(cleared, Task("timeout", jobId))
             /\ scheduledJobs' = MapSet(scheduledJobs, jobId, Len(tasks) + 1)
  /\ UNCHANGED webhookVars

\* cancelScheduledMessage (lines 97-115); for a jobId the table does not
\* hold it returns false and changes nothing
Cancel(jobId) ==
  /\ MapHas(scheduledJobs, jobId)
  /\ LET job == scheduledJobs[jobId]
     IN tasks' = IF tasks[job].kind = "cron" THEN Stop(tasks, job) ELSE clearTimeout(tasks, job)
  /\ scheduledJobs' = MapDelete(scheduledJobs, jobId)
  /\ UNCHANGED webhookVars

\* the runtime starts the callback of an armed timeout (line 69): it runs up
\* to the await of sendMessageFn
TimerFire(h) ==
  /\ tasks[h].kind = "timeout" /\ Armed(h)
  /\ tasks' = [tasks EXCEPT ![h].state = "running", ![h].fired = @ + 1]
  /\ UNCHANGED scheduledJobs
  /\ UNCHANGED webhookVars

\* the send of a running one-time callback settles (lines 72-76): when it
\* resolves the jobId is deleted from the table, when it rejects the catch
\* block only logs
SendDone(h, ok) ==
  /\ tasks[h].kind = "timeout" /\ tasks[h].state = "running"
  /\ tasks' = [tasks EXCEPT ![h].state = "finished"]
  /\ scheduledJobs' = IF ok THEN MapDelete(scheduledJobs, tasks[h].jobId) ELSE scheduledJobs
  /\ UNCHANGED webhookVars

\* the callback of an armed cron task runs (lines 22-28); it changes nothing
\* of the scheduler
CronFire(h) ==
  /\ tasks[h].kind = "cron" /\ Armed(h)
  /\ tasks[h].fired < MaxFires
  /\ tasks' = [tasks EXCEPT ![h].fired = @ + 1]
  /\ UNCHANGED scheduledJobs
  /\ UNCHANGED webhookVars

\* listScheduledMessages (lines 121-133): one entry per jobId of the table,
\* every one of them with status 'active'
listScheduledMessages ==
  {[jobId |-> j,
    type |-> IF tasks[scheduledJobs[j]].kind = "cron" THEN "recurring" ELSE "one-time",
    status |-> "active"] : j \in DOMAIN scheduledJobs}

Delays == {0, 1}

NextScheduler ==
  \/ \E j \in JobIds : ScheduleRecurring(j)
  \/ \E j \in JobIds, d \in Delays : ScheduleOneTime(j, d)
  \/ \E j \in JobIds : Cancel(j)
  \/ \E h \in DOMAIN tasks : TimerFire(h)
  \/ \E h \in DOMAIN tasks, ok \in BOOLEAN : SendDone(h, ok)
  \/ \E h \in DOMAIN tasks : CronFire(h)

SpecScheduler == Init /\ [][NextScheduler]_vars

\* C37: after any sequence of scheduleRecurringMessage, scheduleOneTimeMessage
\* and cancelScheduledMessage calls, every jobId has at most one live cron
\* task or timer, and every live task is the one the job table registers
\* under its jobId.
C37_AsStated ==
  /\ \A j \in JobIds :
       Cardinality({h \in DOMAIN tasks : tasks[h].jobId = j /\ Armed(h)}) <= 1
  /\ \A h \in DOMAIN tasks :
       Armed(h) =>
         MapHas(scheduledJobs, tasks[h].jobId) /\ scheduledJobs[tasks[h].jobId] = h

\* C38: a one-time job fires at most once, and once its timer has executed
\* listScheduledMessages has no active entry for it: the job table no longer
\* holds it.
C38_AsStated ==
  \A h \in DOMAIN tasks :
    tasks[h].kind = "timeout" =>
      /\ tasks[h].fired <= 1
      /\ tasks[h].state = "finished" =>
           ~\E e \in listScheduledMessages :
               e.jobId = tasks[h].jobId /\ scheduledJobs[e.jobId] = h

(***************************************************************************)
(* The conversation history of a conversation that has been going on: the  *)
(* server holds k entries for u1, user and assistant messages in turn,     *)
(* pushed by earlier requests, and one more request arrives.               *)
(***************************************************************************)
StoredHistory(k) ==
  [i \in 1..k |-> Entry(IF (k - i) % 2 = 1 THEN "user" ELSE "assistant", 0 - ((k - i) \div 2))]

HistoryLengths == {0, HistoryLimit - 2, HistoryLimit}

InitHistory ==
  /\ pendingFileRetrievals = EmptyMap
  /\ forwardedMessages = EmptyMap
  /\ chartStorage = EmptyMap
  /\ seeded = 0
  /\ names = Names0
  /\ mediaFiles = <<>>
  /\ disk = InitDisk(0)
  /\ now = Now0
  /\ received = MaxRequests - 1
  /\ req = [r \in Slots |-> IdleReq]
  /\ timers = EmptyMap
  /\ fetched = NoFetch
  /\ \E k \in HistoryLengths :
       conversationHistory =
         IF k = 0 THEN EmptyMap ELSE MapSet(EmptyMap, "u1", StoredHistory(k))
  /\ scheduledJobs = EmptyMap
  /\ tasks = <<>>

SpecHistory == InitHistory /\ [][NextRetry]_vars

\* C39: in every reachable state the history of every conversation holds at
\* most 20 entries.
C39_AsStated ==
  \A c \in DOMAIN conversationHistory : Len(conversationHistory[c]) <= HistoryLimit

====
